---- MODULE Spec2Model ----
(***************************************************************************)
(* Model of the regulation-formalization schemas and prompt contracts:     *)
(* src/entities.py (the domain model) and src/prompts/*.py (the stage      *)
(* payload schemas, the rules and the worked examples built into each      *)
(* system prompt).  The calls of the stages for one record (Extractor,      *)
(* Structurer, Formatter, Serializer) are not part of these files; their   *)
(* order follows the specification's sections 5 and 7, and each call's     *)
(* payload is validated by the schema the code declares for it.            *)
(*                                                                         *)
(* Python values are tagged records [t |-> type name, v |-> text], so that *)
(* None, "", a str and an int stay distinct.  Texts are TLA+ strings and   *)
(* are taken apart with Len, SubSeq and \o, as str.replace and the `in`    *)
(* test take a str apart.  Non-ASCII characters of the source are written  *)
(* in ASCII: the operator U+2208 is "in", typographic quotes are "'" and   *)
(* the en dash is "-".                                                     *)
(***************************************************************************)
EXTENDS Integers, Sequences, FiniteSets, TLC

VARIABLES
    refs,   \* the heap of ExternalReference objects: refs[i] is object i
    graph,  \* the GraphRequirement the name g is bound to, NoGraph before the first
    last,   \* the last call: what was called, with what, and what came of it
    pipeline \* one record on its way through the stages: each stage's state and payload

vars == <<refs, graph, last, pipeline>>

\* ------------------------------------------------------------------ bounds
\* ExternalReference objects constructed in one run
MaxRefs == 2

\* ----------------------------------------------------------- Python values
Str(s) == [t |-> "str", v |-> s]
IntVal(s) == [t |-> "int", v |-> s]
None == [t |-> "NoneType", v |-> "None"]
\* a keyword argument that the call does not pass
Missing == [t |-> "missing", v |-> ""]
\* a list, an instance of a class with its fields, a reference to object i of
\* the heap: each with a field of its own name, never compared with a text
List(s) == [t |-> "list", l |-> s]
Obj(cls, fields) == [t |-> cls, f |-> fields]
Ref(cls, i) == [t |-> cls, ref |-> i]

IsStr(x) == x.t = "str"
IsNone(x) == x.t = "NoneType"
IsMissing(x) == x.t = "missing"

Range(s) == {s[i] : i \in DOMAIN s}

\* ------------------------------------------------------- entities.py enums
Entity == {"subject_entity", "object_entity"}

Operator == {"==", "!=", ">", ">=", "<", "<=", "in"}

StatementType == {"requirement", "assumption"}

QueryType == {"Duplicate", "Contradiction", "Question", "Other"}

\* ---------------------------------------------- pydantic field validation
\* A field annotated `str`: the value must be passed and must be a str.
StrOk(x) == IsStr(x)

\* A field annotated Optional[str] with no default: must be passed, None allowed.
OptionalStrOk(x) == IsStr(x) \/ IsNone(x)

\* A field annotated with a str-valued Enum: the input must be the value of a member.
EnumOk(x, members) == IsStr(x) /\ x.v \in members

\* Optional[Enum] with no default: None, or the value of a member.
OptionalEnumOk(x, members) == IsNone(x) \/ EnumOk(x, members)

\* A field annotated with a model class: an instance of that class is taken as it is.
InstanceOk(x, cls) == x.t = cls

\* list[cls]: a list whose elements are instances of cls.
ListOfOk(x, cls) == x.t = "list" /\ \A i \in DOMAIN x.l : InstanceOk(x.l[i], cls)

\* the value a field with default None gets when the keyword is not passed
DefaultNone(x) == IF IsMissing(x) THEN None ELSE x

\* ------------------------------------------------ the record of the last call
\* op: the class constructed or the method called; args: what was passed;
\* raised: "" or the exception; value: the object returned (NoValue when raised).
NoValue == [t |-> "NoValue", v |-> ""]

\* no GraphRequirement constructed yet
NoGraph == [t |-> "NoGraph"]

Call(op, args, raised, value) ==
    [op |-> op, args |-> args, raised |-> raised, value |-> value]

Returned(op, args, value) == Call(op, args, "", value)
Raised(op, args, exc) == Call(op, args, exc, NoValue)

\* a call that assigns to objects it was passed: before is the heap it found
ReturnedOver(op, args, value, heap) ==
    [op |-> op, args |-> args, raised |-> "", value |-> value, before |-> heap]

\* ------------------------------------------------- entities.py: dataclasses
\* @dataclass Source: __init__ stores what it is given; only a missing
\* argument fails, with TypeError.  No field is checked against its annotation.
SourceFields == {"paragraph", "document", "chapter"}

Source(a) ==
    IF \E f \in SourceFields : IsMissing(a[f])
    THEN Raised("Source", a, "TypeError")
    ELSE Returned("Source", a, Obj("Source", a))

\* @dataclass BaseRequirement(req_text, source)
BaseRequirement(a) ==
    IF IsMissing(a.req_text) \/ IsMissing(a.source)
    THEN Raised("BaseRequirement", a, "TypeError")
    ELSE Returned("BaseRequirement", a, Obj("BaseRequirement", a))

\* --------------------------------------------- entities.py: pydantic models
\* operator and value declared Optional, as in query_structurator.py
ApplicabilityOkOptional(a) ==
    /\ EnumOk(a.entity, Entity)
    /\ StrOk(a.property)
    /\ OptionalEnumOk(a.operator, Operator)
    /\ OptionalStrOk(a.value)

\* class Applicability(BaseModel): entity: Entity, property: str,
\* operator: Operator, value: str
ApplicabilityOk(a) ==
    /\ EnumOk(a.entity, Entity)
    /\ StrOk(a.property)
    /\ EnumOk(a.operator, Operator)
    /\ StrOk(a.value)

Applicability(a) ==
    IF ApplicabilityOk(a)
    THEN Returned("Applicability", a, Obj("Applicability", a))
    ELSE Raised("Applicability", a, "ValidationError")

\* class Statement(BaseModel): property: str, operator: Operator, value: str,
\* type: StatementType
\* the operator field annotated str instead of Operator
StatementOkOperatorStr(a) ==
    /\ StrOk(a.property)
    /\ StrOk(a.operator)
    /\ StrOk(a.value)
    /\ EnumOk(a.type, StatementType)

StatementOk(a) ==
    /\ StrOk(a.property)
    /\ EnumOk(a.operator, Operator)
    /\ StrOk(a.value)
    /\ EnumOk(a.type, StatementType)

Statement(a) ==
    IF StatementOk(a)
    THEN Returned("Statement", a, Obj("Statement", a))
    ELSE Raised("Statement", a, "ValidationError")

\* class Query(BaseModel): type: QueryType, mean: str
QueryOk(a) == EnumOk(a.type, QueryType) /\ StrOk(a.mean)

Query(a) ==
    IF QueryOk(a)
    THEN Returned("Query", a, Obj("Query", a))
    ELSE Raised("Query", a, "ValidationError")

\* class ExternalReference(BaseModel): document: str,
\* domain: Optional[str] = Field(default=None)
ExternalReferenceOk(a) == StrOk(a.document) /\ (IsMissing(a.domain) \/ OptionalStrOk(a.domain))

ExternalReferenceInit(a) == [document |-> a.document, domain |-> DefaultNone(a.domain)]

\* ------------------------------------ query_structurator.py: pydantic models
\* class Applicability(BaseModel): entity: Entity, property: str,
\* operator: Optional[Operator], value: Optional[str]
QueryApplicabilityOk(a) ==
    /\ EnumOk(a.entity, Entity)
    /\ StrOk(a.property)
    /\ OptionalEnumOk(a.operator, Operator)
    /\ OptionalStrOk(a.value)

QueryApplicability(a) ==
    IF QueryApplicabilityOk(a)
    THEN Returned("QueryApplicability", a, Obj("QueryApplicability", a))
    ELSE Raised("QueryApplicability", a, "ValidationError")

\* value declared str, as in entities.py
QueryStatementOkValueStr(a) ==
    /\ OptionalStrOk(a.property)
    /\ OptionalEnumOk(a.operator, Operator)
    /\ StrOk(a.value)
    /\ OptionalEnumOk(a.type, StatementType)

\* class Statement(BaseModel): every field Optional, none with a default
QueryStatementOk(a) ==
    /\ OptionalStrOk(a.property)
    /\ OptionalEnumOk(a.operator, Operator)
    /\ OptionalStrOk(a.value)
    /\ OptionalEnumOk(a.type, StatementType)

QueryStatement(a) ==
    IF QueryStatementOk(a)
    THEN Returned("QueryStatement", a, Obj("QueryStatement", a))
    ELSE Raised("QueryStatement", a, "ValidationError")

\* class StructuredRequirement(BaseModel) of requirements_structurator.py:
\* object_entity, subject_entity, relation: str; statement: Statement;
\* applicability, external_refs: Optional[list[...]] = Field(default=None).
\* No validator relates the fields to each other.
StructuredRequirementOk(a) ==
    /\ StrOk(a.object_entity)
    /\ StrOk(a.subject_entity)
    /\ StrOk(a.relation)
    /\ (IsMissing(a.applicability) \/ IsNone(a.applicability)
            \/ ListOfOk(a.applicability, "Applicability"))
    /\ InstanceOk(a.statement, "Statement")
    /\ (IsMissing(a.external_refs) \/ IsNone(a.external_refs) \/ a.external_refs.t = "list")

StructuredRequirement(a) ==
    IF StructuredRequirementOk(a)
    THEN Returned("StructuredRequirement", a,
                  Obj("StructuredRequirement",
                      [a EXCEPT !.applicability = DefaultNone(@),
                                !.external_refs = DefaultNone(@)]))
    ELSE Raised("StructuredRequirement", a, "ValidationError")

\* null not taken for a value of the field
ResultOkNotNull(a) == InstanceOk(a.structured_requirement, "StructuredRequirement")

\* class Result(BaseModel): structured_requirement:
\* Optional[StructuredRequirement], no default: null is a value of the field
ResultOk(a) ==
    IsNone(a.structured_requirement) \/ InstanceOk(a.structured_requirement, "StructuredRequirement")

Result(a) ==
    IF ResultOk(a)
    THEN Returned("Result", a, Obj("Result", a))
    ELSE Raised("Result", a, "ValidationError")

\* subject_entity declared str, as in StructuredRequirement
PartiallySpecifiedRequirementOkSubjectStr(a) ==
    /\ StrOk(a.object_entity)
    /\ StrOk(a.subject_entity)
    /\ OptionalStrOk(a.relation)
    /\ (IsMissing(a.applicability) \/ IsNone(a.applicability)
            \/ ListOfOk(a.applicability, "QueryApplicability"))
    /\ InstanceOk(a.statement, "QueryStatement")

\* class PartiallySpecifiedRequirement(BaseModel) of query_structurator.py:
\* object_entity: str; subject_entity, relation: Optional[str] with no default;
\* applicability: Optional[list[Applicability]] = Field(default=None);
\* statement: Statement. No validator relates the fields to each other.
PartiallySpecifiedRequirementOk(a) ==
    /\ StrOk(a.object_entity)
    /\ OptionalStrOk(a.subject_entity)
    /\ OptionalStrOk(a.relation)
    /\ (IsMissing(a.applicability) \/ IsNone(a.applicability)
            \/ ListOfOk(a.applicability, "QueryApplicability"))
    /\ InstanceOk(a.statement, "QueryStatement")

PartiallySpecifiedRequirement(a) ==
    IF PartiallySpecifiedRequirementOk(a)
    THEN Returned("PartiallySpecifiedRequirement", a,
                  Obj("PartiallySpecifiedRequirement", [a EXCEPT !.applicability = DefaultNone(@)]))
    ELSE Raised("PartiallySpecifiedRequirement", a, "ValidationError")

\* a JSON object as the language model returns it, before validation
Dict(d) == [t |-> "dict", d |-> d]

\* validation of a JSON object against StructuredRequirement: the nested
\* Statement, Applicability and ExternalReference objects are validated first,
\* an error in one of them is the error of the whole
StructuredRequirementFrom(d) ==
    LET st == Statement(d.statement)
        aps == IF d.applicability.t = "list"
               THEN [i \in DOMAIN d.applicability.l |-> Applicability(d.applicability.l[i])]
               ELSE <<>>
        ers == IF d.external_refs.t = "list" THEN d.external_refs.l ELSE <<>>
    IN  IF \/ st.raised # ""
           \/ \E i \in DOMAIN aps : aps[i].raised # ""
           \/ \E i \in DOMAIN ers : ~ExternalReferenceOk(ers[i])
        THEN Raised("StructuredRequirement", d, "ValidationError")
        ELSE StructuredRequirement(
                [d EXCEPT !.statement = st.value,
                          !.applicability =
                              IF @.t = "list" THEN List([i \in DOMAIN aps |-> aps[i].value])
                              ELSE @,
                          !.external_refs =
                              IF @.t = "list"
                              THEN List([i \in DOMAIN ers |->
                                           Obj("ExternalReference", ExternalReferenceInit(ers[i]))])
                              ELSE @])

\* the same against PartiallySpecifiedRequirement, with the Statement and
\* Applicability of query_structurator.py
PartiallySpecifiedRequirementFrom(d) ==
    LET st == QueryStatement(d.statement)
        aps == IF d.applicability.t = "list"
               THEN [i \in DOMAIN d.applicability.l |->
                        QueryApplicability(d.applicability.l[i])]
               ELSE <<>>
    IN  IF st.raised # "" \/ \E i \in DOMAIN aps : aps[i].raised # ""
        THEN Raised("PartiallySpecifiedRequirement", d, "ValidationError")
        ELSE PartiallySpecifiedRequirement(
                [d EXCEPT !.statement = st.value,
                          !.applicability =
                              IF @.t = "list" THEN List([i \in DOMAIN aps |-> aps[i].value])
                              ELSE @])

\* applicability declared Optional, as in StructuredRequirement
GraphRequirementOkOptionalApplicability(a) ==
    /\ StrOk(a.req_text)
    /\ StrOk(a.object_entity)
    /\ StrOk(a.subject_entity)
    /\ StrOk(a.relation)
    /\ (IsNone(a.applicability) \/ ListOfOk(a.applicability, "Applicability"))
    /\ InstanceOk(a.statement, "Statement")
    /\ a.external_refs.t = "list"
    /\ InstanceOk(a.source, "Source")

\* class GraphRequirement(BaseModel) of entities.py: every field required.
\* external_refs holds the ExternalReference instances it is given (the heap
\* indices of refs); source is a Source instance, taken as it is.
GraphRequirementOk(a) ==
    /\ StrOk(a.req_text)
    /\ StrOk(a.object_entity)
    /\ StrOk(a.subject_entity)
    /\ StrOk(a.relation)
    /\ ListOfOk(a.applicability, "Applicability")
    /\ InstanceOk(a.statement, "Statement")
    /\ a.external_refs.t = "list"
    /\ InstanceOk(a.source, "Source")

\* the instance built with a Source that lost its paragraph
GraphRequirementInitNoParagraph(a) ==
    [a EXCEPT !.external_refs = a.external_refs.l,
              !.source = Obj("Source", [a.source.f EXCEPT !.paragraph = None])]

\* the fields of the new instance: external_refs is a new list of the same objects
GraphRequirementInit(a) == [a EXCEPT !.external_refs = a.external_refs.l]

\* GraphRequirement.model_post_init: for ref in self.external_refs:
\*     if ref.domain is None: ref.domain = ""
\* It assigns to the ExternalReference objects themselves.
\* the loop running over every ExternalReference there is
model_post_init_every_object(heap, external_refs) ==
    [i \in DOMAIN heap |->
        IF IsNone(heap[i].domain) THEN [heap[i] EXCEPT !.domain = Str("")] ELSE heap[i]]

\* the loop leaving after the first reference
model_post_init_first_only(heap, external_refs) ==
    [i \in DOMAIN heap |->
        IF external_refs # <<>> /\ i = external_refs[1] /\ IsNone(heap[i].domain)
        THEN [heap[i] EXCEPT !.domain = Str("")]
        ELSE heap[i]]

model_post_init(heap, external_refs) ==
    [i \in DOMAIN heap |->
        IF i \in Range(external_refs) /\ IsNone(heap[i].domain)
        THEN [heap[i] EXCEPT !.domain = Str("")]
        ELSE heap[i]]

\* ------------------------------------------------------------ Python str
\* s.find(sub, i): the least index >= i at which sub occurs in s, 0 when none
Find(s, sub, i) ==
    LET at == {k \in i..(Len(s) - Len(sub) + 1) : SubSeq(s, k, k + Len(sub) - 1) = sub}
    IN  IF at = {} THEN 0 ELSE CHOOSE k \in at : \A m \in at : k <= m

\* sub in s
Contains(s, sub) == Find(s, sub, 1) # 0

\* s.replace(old, new), old not empty: the occurrences of old are taken from the
\* left and do not overlap
RECURSIVE Replace(_, _, _)
Replace(s, old, new) ==
    LET k == Find(s, old, 1)
    IN  IF k = 0
        THEN s
        ELSE SubSeq(s, 1, k - 1) \o new
                \o Replace(SubSeq(s, k + Len(old), Len(s)), old, new)

\* iterating a str yields its characters
Chars(s) == [i \in 1..Len(s) |-> SubSeq(s, i, i)]

\* ------------------------------------ requirements_formatter.py: the schemas
\* class Input(BaseModel): text: str, subject_entity: Optional[str],
\* object_entity: str, statement: Statement
FormatterInputOk(a) ==
    /\ StrOk(a.text)
    /\ OptionalStrOk(a.subject_entity)
    /\ StrOk(a.object_entity)
    /\ InstanceOk(a.statement, "Statement")

FormatterInput(a) ==
    IF FormatterInputOk(a)
    THEN Returned("Input", a, Obj("Input", a))
    ELSE Raised("Input", a, "ValidationError")

\* class FormattedRequirement(BaseModel): formatted_text: str.  The ASSERT of
\* the field description is text for the language model; no validator runs it.
FormattedRequirementOk(a) == StrOk(a.formatted_text)

FormattedRequirement(a) ==
    IF FormattedRequirementOk(a)
    THEN Returned("FormattedRequirement", a, Obj("FormattedRequirement", a))
    ELSE Raised("FormattedRequirement", a, "ValidationError")

\* the "&&" removed first
StripMarkersEntityFirst(formatted_text) ==
    Replace(Replace(formatted_text, "&&", ""), "$$", "")

\* the ASSERT of FormattedRequirement.formatted_text:
\* formatted_text.replace("$$", '').replace("&&", "")
StripMarkers(formatted_text) == Replace(Replace(formatted_text, "$$", ""), "&&", "")

\* the Input(...) and FormattedRequirement(...) calls of the Task Examples
FormatterTaskExamples == <<
    \* Example 1: lines 58-73
    [text |->
        "Stairwells in apartment buildings must have natural lighting through windows located in "
        \o "the exterior walls",
     subject_entity |-> Str("stairwell"),
     object_entity |-> Str("windows"),
     statement |-> [property |-> Str("presence"), operator |-> Str("=="),
                    value |->
                      Str("yes"),
                    type |-> Str("requirement")],
     formatted_text |->
        "&&Stairwells&& of multi-unit residential buildings $$must have$$ natural lighting throug"
        \o "h &&windows&& located in exterior walls"],
    \* Example 2: lines 79-94
    [text |->
        "An educational and experimental zone may be designated on the territory of the education"
        \o "al organization.",
     subject_entity |-> Str("territory of the educational organization"),
     object_entity |-> Str("educational and experimental zone"),
     statement |-> [property |-> Str("presence"), operator |-> Str("=="),
                    value |->
                      Str("there is"),
                    type |-> Str("assumption")],
     formatted_text |->
        "On &&the territory of the educational organization&& $$it is permitted to designate$$ &&"
        \o "an educational and experimental zone&&."],
    \* Example 3: lines 100-115
    [text |->
        "Doors to classrooms designed for more than 20 students should be provided from corridors"
        \o " with a width of at least 4.0 m.",
     subject_entity |-> Str("classrooms"),
     object_entity |-> Str("doors"),
     statement |-> [property |-> Str("entrance location"), operator |-> Str("=="),
                    value |->
                      Str("corridors at least 4.0 m wide"),
                    type |-> Str("requirement")],
     formatted_text |->
        "&&Doors&& to &&classrooms&& designed for more than 20 students $$should be provided from"
        \o " corridors with a width of at least 4.0 m$$."],
    \* Example 4: lines 121-136
    [text |->
        "The area of the fabric processing and technology workshop in a primary school should be "
        \o "at least 6 m2 per student (13 places)",
     subject_entity |-> Str("primary school"),
     object_entity |-> Str("fabric processing and technology workshop"),
     statement |-> [property |-> Str("area per student"), operator |-> Str(">="),
                    value |->
                      Str("6 m2"),
                    type |-> Str("requirement")],
     formatted_text |->
        "$$Area$$ &&fabric processing and technology workshop&& in &&primary school&& $$must be a"
        \o "t least 6 m2 per student$$ (13 seats)"],
    \* Example 5: lines 142-157
    [text |->
        "For the group of workshops on the first floor, it is recommended to provide an additiona"
        \o "l separate exit directly to the outside through a corridor that does not have exits from"
        \o " classrooms, offices, and laboratories.",
     subject_entity |-> Str("group of workshops"),
     object_entity |-> Str("exit"),
     statement |-> [property |-> Str("type"), operator |-> Str("=="),
                    value |->
                      Str("separate (through a corridor with no exit from classrooms, offices, and laboratories)"),
                    type |-> Str("assumption")],
     formatted_text |->
        "From &&workshop group&& on the first floor, $$it is recommended to provide$$ an addition"
        \o "al $$separate$$ &&exit&& directly to the outside $$through a corridor with no exit from "
        \o "classrooms, offices, and laboratories$$."],
    \* Example 6: lines 163-178
    [text |->
        "The placement of land plots for educational institutions in development is determined in"
        \o " accordance with Table D.1 of SP 42.13330.2016.",
     subject_entity |-> Str("general education institution"),
     object_entity |-> Str("land plot"),
     statement |-> [property |-> Str("placement"), operator |-> Str("=="),
                    value |->
                      Str("according to table D.1 SP 42.13330.2016"),
                    type |-> Str("requirement")],
     formatted_text |->
        "$$The placement$$ &&of land plots&& &&OO&& in the development $$is determined in accorda"
        \o "nce with Table D.1 of SP 42.13330.2016$$."],
    \* Example 7: lines 184-199
    [text |->
        "the minimum recommended ceiling height is 2m",
     subject_entity |-> None,
     object_entity |-> Str("ceiling"),
     statement |-> [property |-> Str("height"), operator |-> Str(">="),
                    value |->
                      Str("2m"),
                    type |-> Str("assumption")],
     formatted_text |->
        "minimum $$recommended height$$ &&of ceilings&& $$is 2m$$"]
>>

\* the Task Examples with the first entity of Example 1 closed inside the statement
FormatterExamplesNested ==
    [i \in DOMAIN FormatterTaskExamples |->
        IF i = 1
        THEN [FormatterTaskExamples[i] EXCEPT !.formatted_text =
                "&&Stairwells of multi-unit residential buildings $$must&& have$$ natural "
                \o "lighting through &&windows&& located in exterior walls"]
        ELSE FormatterTaskExamples[i]]

FormatterExamples == FormatterTaskExamples

\* rule 3: blocks "&&...&&" and "$$...$$" must not be nested. Reading s from
\* index i with the block `open` begun ("" when none): the next marker begins
\* a block when none is open, ends the open block when it is the same marker,
\* and is nested when it is the other one; at the end no block may be open.
RECURSIVE NotNested(_, _, _)
NotNested(s, i, open) ==
    LET at == {k \in i..(Len(s) - 1) : SubSeq(s, k, k + 1) \in {"&&", "$$"}}
    IN  IF at = {}
        THEN open = ""
        ELSE LET k == CHOOSE m \in at : \A n \in at : m <= n
                 t == SubSeq(s, k, k + 1)
             IN  IF open = "" THEN NotNested(s, k + 2, t)
                 ELSE IF open = t THEN NotNested(s, k + 2, "")
                 ELSE FALSE

\* ----------------------------------------- query_handler.py: QUERY_SYS_PROMPT
\* Rules, 1. Determining the type of request, in the order of the list
ContradictionWords == {"contradiction", "inconsistency", "discrepancy"}

DuplicateWords == {"duplicate", "repeat", "copy"}

QueryTypeRule(query) ==
    IF Contains(query, "?") THEN "Question"
    ELSE IF \E w \in ContradictionWords : Contains(query, w) THEN "Contradiction"
    ELSE IF \E w \in DuplicateWords : Contains(query, w) THEN "Duplicate"
    ELSE "Other"

\* the Input: lines and Query(...) calls of the Task Examples
QueryExamples == <<
    \* Example 1: lines 51-57
    [input |->
        "Display all requirements related to restrictions on the size of classrooms in general ed"
        \o "ucation institutions teaching children under 18 years of age.",
     type |-> Str("Other"),
     mean |->
        "classroom space in general education institutions teaching children under 18"],
    \* Example 2: lines 63-69
    [input |->
        "'Find a contradiction between the following requirements: in educational institutions de"
        \o "signed for teaching children under the age of 18, all classrooms on the first floor must"
        \o " have an area of at least 15 m2.'",
     type |-> Str("Contradiction"),
     mean |->
        "in buildings of educational organizations designed for teaching children under 18 years "
        \o "of age, all classrooms on the first floor must have an area of at least 15 m2"],
    \* Example 3: lines 75-81
    [input |->
        "'What should be the minimum area of classrooms on the first floor in buildings of educat"
        \o "ional organizations designed for teaching children under 18 years of age?'",
     type |-> Str("Question"),
     mean |->
        "minimum area of classrooms on the first floor in buildings of educational institutions d"
        \o "esigned for teaching children under 18 years of age"],
    \* Example 4: lines 87-93
    [input |->
        "'Is there any duplicate information in the data regarding restrictions on the maximum si"
        \o "ze of classrooms in general education institutions for children under 18?'",
     type |-> Str("Duplicate"),
     mean |->
        "maximum classroom size in general education institutions for children under 18"],
    \* Example 5: lines 99-105
    [input |->
        "'Check whether fire safety requirements can be ignored'",
     type |-> Str("Other"),
     mean |->
        "fire safety"]
>>

\* ------------------------------- requirements_extractor.py: the schemas
\* class Requirement(BaseModel): text: str
RequirementOk(a) == StrOk(a.text)

Requirement(a) ==
    IF RequirementOk(a)
    THEN Returned("Requirement", a, Obj("Requirement", a))
    ELSE Raised("Requirement", a, "ValidationError")

\* class ExtractedRequirements(BaseModel): reqs: Optional[list[Requirement]],
\* paragraph: Optional[str] = Field(default=None)
ExtractedRequirementsOk(a) ==
    /\ IsNone(a.reqs) \/ ListOfOk(a.reqs, "Requirement")
    /\ IsMissing(a.paragraph) \/ OptionalStrOk(a.paragraph)

ExtractedRequirements(a) ==
    IF ExtractedRequirementsOk(a)
    THEN Returned("ExtractedRequirements", a,
                  Obj("ExtractedRequirements", [a EXCEPT !.paragraph = DefaultNone(@)]))
    ELSE Raised("ExtractedRequirements", a, "ValidationError")

\* Python's reading of `( "a", "b" "c" )`: string literals that follow each other
\* with no comma between them are one str, and ...
RECURSIVE Joined(_, _, _)
Joined(literals, i, pending) ==
    IF i > Len(literals)
    THEN IF pending = "" THEN <<>> ELSE <<pending>>
    ELSE IF literals[i].comma
         THEN <<pending \o literals[i].text>> \o Joined(literals, i + 1, "")
         ELSE Joined(literals, i + 1, pending \o literals[i].text)

\* ... parentheses with no comma in them are no tuple: the value is the str
\* itself, and `for text in (...)` then runs over its characters
IterableOf(literals) ==
    IF \E i \in DOMAIN literals : literals[i].comma
    THEN Joined(literals, 1, "")
    ELSE Chars(Joined(literals, 1, "")[1])

\* reqs=[Requirement(text=text) for text in (...)]
RequirementsOf(literals) ==
    LET texts == IterableOf(literals)
    IN  [i \in DOMAIN texts |-> Requirement([text |-> Str(texts[i])]).value]

\* the ExtractedRequirements(...) calls of the Task Examples: the string
\* literals of each `for text in (...)`, comma: a comma follows the literal
ExtractorExamples == <<
    \* Example 1: lines 51-57
    [paragraph |-> Str("6.6.2"), null |-> FALSE, literals |-> <<
        [comma |-> TRUE, text |->
            "Professional educational organizations that do not have branches should be designed with"
            \o " a maximum enrollment of 1,000 students."],
        [comma |-> FALSE, text |->
            "Branches of college complexes should be designed with a maximum enrollment of 1,000 stud"
            \o "ents."]>>],
    \* Example 2: line 66
    [paragraph |-> None, null |-> TRUE, literals |-> <<>>],
    \* Example 3: lines 75-83
    [paragraph |-> Str("6.5"), null |-> FALSE, literals |-> <<
        [comma |-> TRUE, text |->
            "A physical education and sports zone shall be allocated on the territory of the OO."],
        [comma |-> TRUE, text |->
            "A recreation area shall be designated on the territory of the OO."],
        [comma |-> TRUE, text |->
            "A utility area shall be designated on the territory of the OO."],
        [comma |-> FALSE, text |->
            "The designation of an educational and experimental area on the territory of the OO is pe"
            \o "rmitted."]>>],
    \* Example 4: lines 92-98
    [paragraph |-> None, null |-> FALSE, literals |-> <<
        [comma |-> TRUE, text |->
            "Entrance to classrooms should be provided from a corridor with a width of at least 4.0 m"],
        [comma |-> FALSE, text |->
            "Entrance to classrooms should be provided from a recreation area with a width of at leas"
            \o "t 4.0 m"]>>],
    \* Example 5: lines 107-115
    [paragraph |-> Str("6.7"), null |-> FALSE, literals |-> <<
        [comma |-> TRUE, text |->
            "For recreation on the grounds, it is recommended to provide areas for active games for e"
            \o "lementary school students (grades 2-4) at a rate of at least 100 m2 per class"],
        [comma |-> FALSE, text |->
            "For recreation on the grounds, it is recommended to provide areas for active games for 1"
            \o "st grade students - at least 180 m2,"],
        [comma |-> FALSE, text |->
            "For recreation on the grounds, it is recommended to provide areas for quiet recreation f"
            \o "or middle school students, the area of which is assumed to be for 75% of students,"],
        [comma |-> FALSE, text |->
            "For recreation on the grounds, it is recommended to provide areas for quiet recreation f"
            \o "or primary school students, which are equipped with shade canopies,"]>>],
    \* Example 6: lines 125-135
    [paragraph |-> None, null |-> FALSE, literals |-> <<
        [comma |-> TRUE, text |->
            "The placement of OO land plots in the development is determined in accordance with [2]."],
        [comma |-> TRUE, text |->
            "The placement of OO land plots in the development is determined in accordance with Table"
            \o " D.1 of SP 42.13330.2016."],
        [comma |-> TRUE, text |->
            "The placement of OO networks in buildings is determined in accordance with [2]."],
        [comma |-> FALSE, text |->
            "The placement of OO networks in buildings is determined in accordance with Table D.1 of "
            \o "SP 42.13330.2016."],
        [comma |-> TRUE, text |->
            "The size of the land plot is determined in accordance with [2]"],
        [comma |-> FALSE, text |->
            "The size of the land plot is determined in accordance with Table D.1 of SP 42.13330.2016"]>>],
    \* Example 7: lines 144-152
    [paragraph |-> None, null |-> FALSE, literals |-> <<
        [comma |-> FALSE, text |->
            "The area for outdoor games and general physical education exercises for primary and seco"
            \o "ndary schools with one class per grade and a total of nine classes should be 710 m2,"],
        [comma |-> FALSE, text |->
            "The area for outdoor games and general physical education exercises for primary and seco"
            \o "ndary schools with two classes per grade and a total of 18 classes should be 710 m2,"],
        [comma |-> FALSE, text |->
            "The area for outdoor games and general physical education exercises for a full-time scho"
            \o "ol with one class per grade and a total of 11 classes should be 710 m2."],
        [comma |-> FALSE, text |->
            "The area for outdoor games and general physical education exercises for a full-time scho"
            \o "ol with two classes in parallel and a total number of classes equal to 22 must be 710 m2"
            \o "."]>>]
>>

\* ------------------------------------- ids_structurator.py: IDS_SYS_PROMPT
\* class IdsXml(BaseModel): xml: str.  Any str is accepted, the empty one too.
IdsXmlOk(a) == StrOk(a.xml)

IdsXml(a) ==
    IF IdsXmlOk(a)
    THEN Returned("IdsXml", a, Obj("IdsXml", a))
    ELSE Raised("IdsXml", a, "ValidationError")

\* What the IFC vocabulary gives for a requirement: the class of its entity and
\* the property set of its properties, "" where IFC has no suitable equivalent.
HasIfcEquivalent(ifc) == ifc.class # "" /\ ifc.pset # ""

Tag(name, body) == "<ids:" \o name \o ">" \o body \o "</ids:" \o name \o ">"

SimpleValue(text) == Tag("simpleValue", text)

\* every bound taken as inclusive
FacetInclusive(operator) ==
    CASE operator \in {">", ">="} -> "xs:minInclusive"
      [] operator \in {"<", "<="} -> "xs:maxInclusive"
      [] OTHER -> ""

\* Rule 3: `value` / `xs:restriction` depending on `operator`; if the operator
\* does not imply a range, <ids:simpleValue>.  The facets are those of the XSD,
\* as in Example 2 (">=" gives xs:minInclusive).
Facet(operator) ==
    CASE operator = ">" -> "xs:minExclusive"
      [] operator = ">=" -> "xs:minInclusive"
      [] operator = "<" -> "xs:maxExclusive"
      [] operator = "<=" -> "xs:maxInclusive"
      [] OTHER -> ""

IdsValue(operator, value) ==
    IF Facet(operator) = ""
    THEN Tag("value", SimpleValue(value))
    ELSE Tag("value", "<xs:restriction base=\"xs:decimal\"><" \o Facet(operator)
                        \o " value=\"" \o value \o "\"/></xs:restriction>")

IdsPropertyBody(ifc, property, operator, value) ==
    Tag("propertySet", SimpleValue(ifc.pset)) \o Tag("baseName", SimpleValue(property))
        \o IdsValue(operator, value)

\* Rule 2: an <ids:entity> node, and an <ids:property> node for each
\* applicability element; <ids:applicability> is never empty
RECURSIVE IdsApplicabilityNodes(_, _, _)
IdsApplicabilityNodes(ifc, applicability, i) ==
    IF i > Len(applicability)
    THEN ""
    ELSE LET c == applicability[i].f
         IN  "<ids:property dataType=\"IFCLABEL\">"
                \o IdsPropertyBody(ifc, c.property.v, c.operator.v, c.value.v)
                \o "</ids:property>" \o IdsApplicabilityNodes(ifc, applicability, i + 1)

IdsApplicability(ifc, applicability) ==
    Tag("applicability",
        Tag("entity", Tag("name", SimpleValue(ifc.class)))
            \o IdsApplicabilityNodes(ifc, applicability, 1))

\* every statement emitted as required
IdsCardinalityRequired(type) == "required"

\* Rule 3 and the Task Examples: the statement as <ids:property> of
\* <ids:requirements>, cardinality "required" for a requirement (Example 1)
\* and "optional" for an assumption (Example 2)
IdsCardinality(type) == IF type = "requirement" THEN "required" ELSE "optional"

IdsRequirements(ifc, statement) ==
    Tag("requirements",
        "<ids:property cardinality=\"" \o IdsCardinality(statement.type.v)
            \o "\" dataType=\"IFCLABEL\">"
            \o IdsPropertyBody(ifc, statement.property.v, statement.operator.v,
                               statement.value.v)
            \o "</ids:property>")

\* a document with one <ids:specification> for each applicability element
RECURSIVE Repeated(_, _)
Repeated(s, n) == IF n = 0 THEN "" ELSE s \o Repeated(s, n - 1)

IdsGeneratedPerCondition(g, ifc) ==
    "<ids:ids>"
        \o Tag("info", Tag("title", g.req_text.v))
        \o Tag("specifications",
               Repeated("<ids:specification name=\"" \o g.object_entity.v
                            \o "\" ifcVersion=\"IFC4\">"
                            \o IdsApplicability(ifc, g.applicability.l)
                            \o IdsRequirements(ifc, g.statement.f)
                            \o "</ids:specification>",
                        Len(g.applicability.l)))
        \o "</ids:ids>"

\* Rule 1: <ids:info> with a title, and <ids:specifications> with a single
\* <ids:specification ifcVersion="IFC4">
IdsGenerated(g, ifc) ==
    "<ids:ids>"
        \o Tag("info", Tag("title", g.req_text.v))
        \o Tag("specifications",
               "<ids:specification name=\"" \o g.object_entity.v \o "\" ifcVersion=\"IFC4\">"
                   \o IdsApplicability(ifc, g.applicability.l)
                   \o IdsRequirements(ifc, g.statement.f)
                   \o "</ids:specification>")
        \o "</ids:ids>"

\* a document generated whether or not IFC has an equivalent
IdsDocumentBestGuess(g, ifc) == IdsGenerated(g, ifc)

\* Rules 4 and 7: if there is no suitable IFC equivalent, do not generate IDS;
\* if the input cannot be represented in IDS, return an empty string
IdsDocument(g, ifc) == IF HasIfcEquivalent(ifc) THEN IdsGenerated(g, ifc) ELSE ""

\* the statement of the Input and the xml of the IdsXml(...) of the Task Examples
SerializerExamples == <<
    \* Example 1: lines 40-74
    [statement |-> [property |-> Str("presence"), operator |-> Str("=="),
                    value |-> Str("yes"), type |-> Str("requirement")],
     xml |->
        "<?xml version=\"1.0\" encoding=\"UTF-8\"?>\n"
        \o "<ids:ids xmlns:ids=\"http://standards.buildingsmart.org/IDS\" xmlns:xs=\"http://www"
        \o ".w3.org/2001/XMLSchema\" xmlns:xsi=\"http://www.w3.org/2001/XMLSchema-instance\" xs"
        \o "i:schemaLocation=\"http://standards.buildingsmart.org/IDS http://standards.buildi"
        \o "ngsmart.org/IDS/1.0/ids.xsd\">\n"
        \o "  <ids:info>\n"
        \o "    <ids:title>Requirements for natural lighting in stairwells</ids:title>\n"
        \o "    <ids:date>2024-01-01</ids:date>\n"
        \o "  </ids:info>\n"
        \o "  <ids:specifications>\n"
        \o "    <ids:specification name=\"Stairwell Windows\" ifcVersion=\"IFC4\" description=\"S"
        \o "tairwell must contain windows located in external walls.\">\n"
        \o "      <ids:applicability>\n"
        \o "        <ids:entity>\n"
        \o "          <ids:name><ids:simpleValue>IFCSPACE</ids:simpleValue></ids:name>\n"
        \o "        </ids:entity>\n"
        \o "        <ids:property dataType=\"IFCLABEL\">\n"
        \o "          <ids:propertySet><ids:simpleValue>Pset_SpaceCommon</ids:simpleValue></"
        \o "ids:propertySet>\n"
        \o "          <ids:baseName><ids:simpleValue>Location</ids:simpleValue></ids:baseNam"
        \o "e>\n"
        \o "          <ids:value><ids:simpleValue>External Wall</ids:simpleValue></ids:value"
        \o ">\n"
        \o "        </ids:property>\n"
        \o "      </ids:applicability>\n"
        \o "      <ids:requirements>\n"
        \o "        <ids:property cardinality=\"required\" dataType=\"IFCBOOLEAN\">\n"
        \o "          <ids:propertySet><ids:simpleValue>Pset_WindowCommon</ids:simpleValue><"
        \o "/ids:propertySet>\n"
        \o "          <ids:baseName><ids:simpleValue>IsPresent</ids:simpleValue></ids:baseNa"
        \o "me>\n"
        \o "          <ids:value><ids:simpleValue>true</ids:simpleValue></ids:value>\n"
        \o "        </ids:property>\n"
        \o "      </ids:requirements>\n"
        \o "    </ids:specification>\n"
        \o "  </ids:specifications>\n"
        \o "</ids:ids>"],
    \* Example 2: lines 78-121
    [statement |-> [property |-> Str("area"), operator |-> Str(">="),
                    value |-> Str("180 m2"), type |-> Str("assumption")],
     xml |->
        "<?xml version=\"1.0\" encoding=\"UTF-8\"?>\n"
        \o "<ids:ids xmlns:ids='http://standards.buildingsmart.org/IDS' xmlns:xs='http://www"
        \o ".w3.org/2001/XMLSchema' xmlns:xsi='http://www.w3.org/2001/XMLSchema-instance' xs"
        \o "i:schemaLocation='http://standards.buildingsmart.org/IDS http://standards.buildi"
        \o "ngsmart.org/IDS/1.0/ids.xsd'>\n"
        \o "  <ids:info>\n"
        \o "    <ids:title>Requirements for playgrounds for outdoor games</ids:title>\n"
        \o "    <ids:date>2024-01-01</ids:date>\n"
        \o "  </ids:info>\n"
        \o "  <ids:specifications>\n"
        \o "    <ids:specification name=\"Playground Area for First Grade Students\" ifcVersio"
        \o "n=\"IFC4\" description=\"Playground areas for first grade students should have mini"
        \o "mum area of 180 m2.\">\n"
        \o "      <ids:applicability>\n"
        \o "        <ids:entity>\n"
        \o "          <ids:name><ids:simpleValue>IFCSITE</ids:simpleValue></ids:name>\n"
        \o "        </ids:entity>\n"
        \o "        <ids:property dataType=\"IFCLABEL\">\n"
        \o "          <ids:propertySet><ids:simpleValue>Pset_SiteCommon</ids:simpleValue></i"
        \o "ds:propertySet>\n"
        \o "          <ids:baseName><ids:simpleValue>Purpose</ids:simpleValue></ids:baseName"
        \o ">\n"
        \o "          <ids:value><ids:simpleValue>Recreation</ids:simpleValue></ids:value>\n"
        \o "        </ids:property>\n"
        \o "        <ids:property dataType=\"IFCLABEL\">\n"
        \o "          <ids:propertySet><ids:simpleValue>Pset_PlaygroundCommon</ids:simpleVal"
        \o "ue></ids:propertySet>\n"
        \o "          <ids:baseName><ids:simpleValue>Users</ids:simpleValue></ids:baseName>\n"
        \o "          <ids:value><ids:simpleValue>First Grade Students</ids:simpleValue></id"
        \o "s:value>\n"
        \o "        </ids:property>\n"
        \o "      </ids:applicability>\n"
        \o "      <ids:requirements>\n"
        \o "        <ids:property cardinality=\"optional\" dataType=\"IFCAREAMEASURE\">\n"
        \o "          <ids:propertySet><ids:simpleValue>Pset_PlaygroundCommon</ids:simpleVal"
        \o "ue></ids:propertySet>\n"
        \o "          <ids:baseName><ids:simpleValue>Area</ids:simpleValue></ids:baseName>\n"
        \o "          <ids:value>\n"
        \o "            <xs:restriction base=\"xs:decimal\">\n"
        \o "              <xs:minInclusive value=\"180\"/>\n"
        \o "            </xs:restriction>\n"
        \o "          </ids:value>\n"
        \o "        </ids:property>\n"
        \o "      </ids:requirements>\n"
        \o "    </ids:specification>\n"
        \o "  </ids:specifications>\n"
        \o "</ids:ids>"]
>>

\* s.count(sub)
RECURSIVE Count(_, _)
Count(s, sub) ==
    LET k == Find(s, sub, 1)
    IN  IF k = 0 THEN 0 ELSE 1 + Count(SubSeq(s, k + Len(sub), Len(s)), sub)

\* ------------------- requirements_structurator.py: STRUCTURED_REQ_SYS_PROMPT
\* the Input line and the Result(...) of the Task Examples
StructurerExamples == <<
    \* Example 1: lines 87-124
    [input |->
        "Stairwells in multi-unit residential buildings must have natural lighting through wi"
        \o "ndows located in exterior walls, in accordance with the requirements of SP 54.13330."
        \o "2016.",
     structured_requirement |->
         Dict([object_entity |-> Str("windows"),
          subject_entity |-> Str("stairwell"),
          relation |-> Str("contains"),
          applicability |-> List(<<[entity |-> Str("subject_entity"),
                                    property |-> Str("building type"),
                                    operator |-> Str("=="),
                                    value |-> Str("apartment building")],
                                   [entity |-> Str("object_entity"),
                                    property |-> Str("location"),
                                    operator |-> Str("=="),
                                    value |-> Str("external walls")]>>),
          statement |-> [property |-> Str("presence"),
                         operator |-> Str("=="),
                         value |-> Str("yes"),
                         type |-> Str("requirement")],
          external_refs |-> List(<<[document |-> Str("SP 54.13330.2016"),
                                    domain |-> Str("residential buildings")]>>)])],
    \* Example 2: lines 128-147
    [input |->
        "An educational and experimental zone may be designated on the territory of the OO.",
     structured_requirement |->
         Dict([object_entity |-> Str("educational and experimental zone"),
          subject_entity |-> Str("territory of the OO"),
          relation |-> Str("contains"),
          applicability |-> None,
          statement |-> [property |-> Str("presence"),
                         operator |-> Str("=="),
                         value |-> Str("yes"),
                         type |-> Str("assumption")],
          external_refs |-> None])],
    \* Example 3: lines 151-177
    [input |->
        "Doors to classrooms designed for more than 20 students should be provided from corri"
        \o "dors with a width of at least 4.0 m.",
     structured_requirement |->
         Dict([object_entity |-> Str("doors"),
          subject_entity |-> Str("classrooms"),
          relation |-> Str("have"),
          applicability |-> List(<<[entity |-> Str("subject_entity"),
                                    property |-> Str("capacity"),
                                    operator |-> Str(">"),
                                    value |-> Str("20 students")]>>),
          statement |-> [property |-> Str("entrance location"),
                         operator |-> Str("=="),
                         value |-> Str("corridors at least 4.0 m wide"),
                         type |-> Str("requirement")],
          external_refs |-> None])],
    \* Example 4: lines 181-213
    [input |->
        "For recreation on the site, it is recommended to provide areas for outdoor games for"
        \o " 1st grade students - at least 180 m2.",
     structured_requirement |->
         Dict([object_entity |-> Str("area for active games"),
          subject_entity |-> Str("site"),
          relation |-> Str("contains"),
          applicability |-> List(<<[entity |-> Str("subject_entity"),
                                    property |-> Str("purpose"),
                                    operator |-> Str("=="),
                                    value |-> Str("recreation")],
                                   [entity |-> Str("object_entity"),
                                    property |-> Str("users"),
                                    operator |-> Str("=="),
                                    value |-> Str("1st grade students")]>>),
          statement |-> [property |-> Str("area"),
                         operator |-> Str(">="),
                         value |-> Str("180 m2"),
                         type |-> Str("assumption")],
          external_refs |-> None])],
    \* Example 5: lines 217-236
    [input |->
        "The area of the fabric processing and technology workshop in the main school must be"
        \o " at least 6 m2 per student (13 places).",
     structured_requirement |->
         Dict([object_entity |-> Str("fabric processing and technology workshop"),
          subject_entity |-> Str("primary school"),
          relation |-> Str("contains"),
          applicability |-> None,
          statement |-> [property |-> Str("area per student"),
                         operator |-> Str(">="),
                         value |-> Str("6 m2"),
                         type |-> Str("requirement")],
          external_refs |-> None])],
    \* Example 6: lines 240-259
    [input |->
        "The area of the tool room in a primary school must be at least 15 m2 per room.",
     structured_requirement |->
         Dict([object_entity |-> Str("tool room"),
          subject_entity |-> Str("primary school"),
          relation |-> Str("contains"),
          applicability |-> None,
          statement |-> [property |-> Str("area"),
                         operator |-> Str(">="),
                         value |-> Str("15 m2"),
                         type |-> Str("requirement")],
          external_refs |-> None])],
    \* Example 7: lines 263-282
    [input |->
        "The area of a manual labor classroom in an elementary school must be at least 2.5 m2"
        \o " per student (13 seats).",
     structured_requirement |->
         Dict([object_entity |-> Str("crafts room"),
          subject_entity |-> Str("primary school"),
          relation |-> Str("contains"),
          applicability |-> None,
          statement |-> [property |-> Str("area per student"),
                         operator |-> Str(">="),
                         value |-> Str("2.5 m2"),
                         type |-> Str("requirement")],
          external_refs |-> None])],
    \* Example 8: lines 286-312
    [input |->
        "For the group of workshops on the first floor, it is recommended to provide an addit"
        \o "ional separate exit directly to the outside through a corridor that does not have ex"
        \o "its from classrooms, offices, and laboratories.",
     structured_requirement |->
         Dict([object_entity |-> Str("exit"),
          subject_entity |-> Str("group of workshops"),
          relation |-> Str("has"),
          applicability |-> List(<<[entity |-> Str("subject_entity"),
                                    property |-> Str("floor"),
                                    operator |-> Str("=="),
                                    value |-> Str("1")]>>),
          statement |-> [property |-> Str("type"),
                         operator |-> Str("=="),
                         value |-> Str("separate (via a corridor with no exit from classrooms, offices, and laboratories)"),
                         type |-> Str("assumption")],
          external_refs |-> None])],
    \* Example 9: lines 316-347
    [input |->
        "The placement of OO land plots in development is determined in accordance with Table"
        \o " D.1 of SP 42.13330.2016.",
     structured_requirement |->
         Dict([object_entity |-> Str("land plot"),
          subject_entity |-> Str("OO"),
          relation |-> Str("has"),
          applicability |-> List(<<[entity |-> Str("object_entity"),
                                    property |-> Str("location"),
                                    operator |-> Str("=="),
                                    value |-> Str("in development")]>>),
          statement |-> [property |-> Str("placement"),
                         operator |-> Str("=="),
                         value |-> Str("according to table D.1 SP 42.13330.2016"),
                         type |-> Str("requirement")],
          external_refs |-> List(<<[document |-> Str("SP 42.13330.2016"),
                                    domain |-> None]>>)])],
    \* Example 10: lines 351-356
    [input |->
        "The optimal shape of the area is with a ratio of sides no greater than 1:2.",
     structured_requirement |->
         None]
>>

\* Rules 2 and 3: the modal verbs and softening modality ("may", 'should',
\* "recommended", "allowed") that make a statement an assumption
SofteningModality == {"may", "should", "recommended", "allowed"}

\* Rule 3, `type`: requirement for the affirmative mood without mitigating
\* modality, assumption for everything else
StatementTypeRule(text) ==
    IF \E w \in SofteningModality : Contains(text, w) THEN "assumption" ELSE "requirement"

\* ------------------------------------------------------------------ inputs
NotAStr == {None, Missing, IntVal("5")}

Vary(base, f, S) == {[base EXCEPT ![f] = x] : x \in S}

OperatorInputs ==
    {Str(o) : o \in Operator} \cup {Str("=>"), Str("="), Str("EQUAL")} \cup NotAStr

SourceBase ==
    [paragraph |-> Str("6.6.2"), document |-> Str("SP 118.13330"), chapter |-> Str("6 Site")]

SourceArgs == Vary(SourceBase, "paragraph", NotAStr) \cup Vary(SourceBase, "chapter", NotAStr)
                \cup {SourceBase}

ExampleSource == Obj("Source", SourceBase)

ExampleReqText == "Stairwells in apartment buildings must have natural lighting"

BaseRequirementBase == [req_text |-> Str(ExampleReqText), source |-> ExampleSource]

BaseRequirementArgs ==
    Vary(BaseRequirementBase, "req_text", NotAStr)
        \cup Vary(BaseRequirementBase, "source", {None, Missing, Str("SP 118.13330")})
        \cup {BaseRequirementBase}

ApplicabilityBase ==
    [entity |-> Str("object_entity"), property |-> Str("location"),
     operator |-> Str("=="), value |-> Str("external walls")]

EntityInputs == {Str(e) : e \in Entity} \cup {Str("windows"), Str("OBJECT"), None}

ApplicabilityArgs ==
    Vary(ApplicabilityBase, "entity", EntityInputs)
        \cup Vary(ApplicabilityBase, "operator", OperatorInputs)
        \cup Vary(ApplicabilityBase, "value", NotAStr)
        \cup Vary(ApplicabilityBase, "property", NotAStr)

ExampleApplicability == Obj("Applicability", ApplicabilityBase)

StatementBase ==
    [property |-> Str("presence"), operator |-> Str("=="), value |-> Str("yes"),
     type |-> Str("requirement")]

StatementTypeInputs ==
    {Str(e) : e \in StatementType} \cup {Str("must"), Str("REQUIREMENT"), None, Missing}

StatementArgs ==
    Vary(StatementBase, "operator", OperatorInputs)
        \cup Vary(StatementBase, "type", StatementTypeInputs)
        \cup Vary(StatementBase, "value", NotAStr)
        \cup Vary(StatementBase, "property", NotAStr)

ExampleStatement == Obj("Statement", StatementBase)

QueryBase == [type |-> Str("Other"), mean |-> Str("fire safety")]

QueryTypeInputs ==
    {Str(e) : e \in QueryType} \cup {Str("Request"), Str("QUESTION"), None, Missing}

QueryArgs == Vary(QueryBase, "type", QueryTypeInputs) \cup Vary(QueryBase, "mean", NotAStr)

ExternalReferenceBase == [document |-> Str("SP 54.13330.2016"), domain |-> Missing]

ExternalReferenceArgs ==
    Vary(ExternalReferenceBase, "domain",
         {Missing, None, Str(""), Str("residential buildings"), IntVal("5")})
        \cup Vary(ExternalReferenceBase, "document", NotAStr)

\* lists of distinct ExternalReference objects among 1..k
RefLists(k) ==
    {l \in UNION {[1..m -> 1..k] : m \in 0..k} :
        \A i, j \in DOMAIN l : l[i] = l[j] => i = j}

StructuredRequirementBase ==
    [object_entity |-> Str("windows"), subject_entity |-> Str("stairwell"),
     relation |-> Str("contains"), applicability |-> List(<<ExampleApplicability>>),
     statement |-> ExampleStatement, external_refs |-> None]

\* one entity or two, with either relation
EntityRelationArgs(base) ==
    {[base EXCEPT !.subject_entity = Str(s), !.relation = Str(r)] :
        s \in {"stairwell", "windows"}, r \in {"is", "contains"}}

StructuredRequirementArgs ==
    EntityRelationArgs(StructuredRequirementBase)
        \cup Vary(StructuredRequirementBase, "relation", NotAStr)
        \cup Vary(StructuredRequirementBase, "subject_entity", NotAStr)
        \cup Vary(StructuredRequirementBase, "applicability", {None, Missing, Str("floor != first")})
        \cup Vary(StructuredRequirementBase, "statement", {None, Missing})
        \cup Vary(StructuredRequirementBase, "external_refs",
                  {Missing} \cup {List(l) : l \in RefLists(Len(refs))})

GraphRequirementBase ==
    [req_text |-> Str(ExampleReqText), object_entity |-> Str("windows"),
     subject_entity |-> Str("stairwell"), relation |-> Str("contains"),
     applicability |-> List(<<ExampleApplicability>>), statement |-> ExampleStatement,
     external_refs |-> List(<<>>), source |-> ExampleSource]

GraphRequirementArgs ==
    EntityRelationArgs(GraphRequirementBase)
        \cup Vary(GraphRequirementBase, "external_refs", {List(l) : l \in RefLists(Len(refs))})
        \cup Vary(GraphRequirementBase, "relation", NotAStr)
        \cup Vary(GraphRequirementBase, "req_text", NotAStr)
        \cup Vary(GraphRequirementBase, "external_refs", {None, Missing})
        \cup Vary(GraphRequirementBase, "applicability", {None, Missing})
        \cup Vary(GraphRequirementBase, "source", {None, Missing, BaseRequirementBase.req_text})

\* the JSON objects a Structurer returns for a text whose value is vague: the
\* value as a word, the vague word itself, or null
StructurerPayloads ==
    {[object_entity |-> Str("windows"), subject_entity |-> Str("stairwell"),
      relation |-> Str("contains"),
      applicability |-> List(<<[ApplicabilityBase EXCEPT !.value = av]>>),
      statement |-> [StatementBase EXCEPT !.value = sv],
      external_refs |-> None] :
        sv \in {Str("yes"), Str("any"), None}, av \in {Str("external walls"), Str("other"), None}}

\* the keyword arguments of PartiallySpecifiedRequirement(...): each field
\* given, null or not passed; the statement filled or with every field null
PartiallySpecifiedRequirementArgs ==
    [object_entity : {Str("windows"), None, Missing},
     subject_entity : {Str("stairwell"), None, Missing},
     relation : {Str("contains"), None, Missing},
     applicability : {List(<<QueryApplicability(ApplicabilityBase).value>>), None, Missing},
     statement : {QueryStatement(StatementBase).value,
                  QueryStatement([property |-> None, operator |-> None,
                                  value |-> None, type |-> None]).value,
                  None, Missing}]

\* the keyword arguments of ExtractedRequirements(...): no list, an empty
\* list or one requirement; a paragraph number, null or none passed
ExtractedRequirementsArgs ==
    [reqs : {None, Missing, List(<<>>),
             List(<<Requirement([text |-> Str(ExampleReqText)]).value>>)},
     paragraph : {Str("6.6.2"), None, Missing, IntVal("5")}]

\* the StructuredRequirement objects handed to GraphRequirement: those of the
\* Task Examples, and that of Example 1 with either list null
HandOffInputs ==
    LET given == {StructurerExamples[i].structured_requirement :
                     i \in DOMAIN StructurerExamples} \ {None}
        first == StructurerExamples[1].structured_requirement.d
    IN  {x.d : x \in given}
            \cup {[first EXCEPT !.applicability = None], [first EXCEPT !.external_refs = None]}

\* the keyword arguments of GraphRequirement(...) when every field of the
\* StructuredRequirement sr is passed as it is, the references being the
\* objects at `at` on the heap, with req_text and source
FieldForField(sr, req_text, source, at) ==
    [req_text |-> req_text,
     object_entity |-> sr.f.object_entity,
     subject_entity |-> sr.f.subject_entity,
     relation |-> sr.f.relation,
     applicability |-> sr.f.applicability,
     statement |-> sr.f.statement,
     external_refs |-> IF sr.f.external_refs.t = "list" THEN List(at) ELSE sr.f.external_refs,
     source |-> source]

QueryStructurerPayloads ==
    {[object_entity |-> Str("windows"), subject_entity |-> None, relation |-> None,
      applicability |-> List(<<[ApplicabilityBase EXCEPT !.value = av]>>),
      statement |-> [StatementBase EXCEPT !.value = sv]] :
        sv \in {Str("yes"), Str("maximum"), None, IntVal("5")},
        av \in {Str("external walls"), Str("other"), None}}

\* the requirements handed to the Serializer: every operator and either
\* strength, with and without an applicability condition
SerializerInputs ==
    {[GraphRequirementBase EXCEPT
         !.statement = Obj("Statement", [StatementBase EXCEPT !.operator = Str(o),
                                                              !.type = Str(ty)]),
         !.applicability = List(ap)] :
        o \in Operator, ty \in StatementType, ap \in {<<>>, <<ExampleApplicability>>}}

\* the IFC equivalents found: both, no class for the entity, no property set
IfcLookups ==
    {[class |-> "IFCWINDOW", pset |-> "Pset_WindowCommon"],
     [class |-> "", pset |-> ""],
     [class |-> "IFCWINDOW", pset |-> ""]}

\* ------------------------------------------------- one record's pipeline
\* no record is in the pipeline
NoRecord == [pc |-> "none"]

Stages == {"Extractor", "Structurer", "Formatter", "Serializer"}

\* a record submitted: no stage has started, no payload exists
NewRecord(paragraph) ==
    [pc |-> "record",
     paragraph |-> paragraph,
     state |-> [st \in Stages |-> "idle"],
     answer |-> [st \in Stages |-> NoValue],
     outcome |-> "",
     extracted |-> NoValue, source |-> NoValue, base |-> NoValue, result |-> NoValue,
     input |-> NoValue, formatted |-> NoValue, given |-> NoGraph, ids |-> NoValue]

\* the stages a stage takes its input from
Upstream(stage) ==
    CASE stage = "Extractor" -> {}
      [] stage = "Structurer" -> {"Extractor"}
      [] stage \in {"Formatter", "Serializer"} -> {"Structurer"}

\* a stage started whatever its upstream stages are doing
MayStartAtOnce(p, stage) == p.pc = "record" /\ p.state[stage] = "idle"

\* a stage starts once, when every upstream stage has returned and the record
\* has not ended: a null outcome or an error ends the record
MayStart(p, stage) ==
    /\ p.pc = "record"
    /\ p.state[stage] = "idle"
    /\ p.outcome = ""
    /\ \A up \in Upstream(stage) : p.state[up] = "returned"

\* the end of a stage that answered `answer`: its state, and the outcome when
\* the record ends there
Ended(p, stage, answer, call, field, outcome) ==
    IF call.raised # ""
    THEN [p EXCEPT !.state[stage] = "raised", !.answer[stage] = answer,
                   !.outcome = "SchemaValidationError"]
    ELSE [p EXCEPT !.state[stage] = "returned", !.answer[stage] = answer,
                   ![field] = call.value,
                   !.outcome = IF outcome = "" THEN @ ELSE outcome]

\* the document and chapter the paragraphs are taken from
RecordDocument == [document |-> Str("SP 118.13330"), chapter |-> Str("6 Site")]

\* the Extractor's answers: those of Task Examples 1 to 3, or one without reqs
ExtractorAnswers(paragraph) ==
    LET e == ExtractorExamples[paragraph]
    IN  {[reqs |-> IF e.null THEN None ELSE List(RequirementsOf(e.literals)),
          paragraph |-> e.paragraph],
         [reqs |-> Missing, paragraph |-> e.paragraph]}

\* the Structurer's answers: null, those of Task Examples 1, 2 and 9, or one
\* with a null statement.value
StructurerAnswers ==
    {None} \cup {StructurerExamples[i].structured_requirement : i \in {1, 2, 9}}
        \cup {Dict([StructurerExamples[2].structured_requirement.d
                        EXCEPT !.statement.value = None])}

\* the Formatter's answers for a text: the text unmarked, the text marked as
\* one entity, or the reworded marked text of Task Example 1
FormatterAnswers(text) ==
    {Str(text), Str("&&" \o text \o "&&"), Str(FormatterExamples[1].formatted_text)}

\* the keyword arguments of GraphRequirement(...) for a StructuredRequirement sr
\* of the requirement base: the fields of sr, absent lists as empty lists, the
\* references as the objects at `at` on the heap, and req_text and source of base
GraphRequirementOf(sr, base, at) ==
    [req_text |-> base.f.req_text,
     object_entity |-> sr.f.object_entity,
     subject_entity |-> sr.f.subject_entity,
     relation |-> sr.f.relation,
     applicability |-> IF IsNone(sr.f.applicability) THEN List(<<>>) ELSE sr.f.applicability,
     statement |-> sr.f.statement,
     external_refs |-> List(at),
     source |-> base.f.source]

\* the ExternalReference objects of a StructuredRequirement
ReferencesOf(sr) ==
    IF IsNone(sr.f.external_refs) THEN <<>>
    ELSE [i \in DOMAIN sr.f.external_refs.l |-> sr.f.external_refs.l[i].f]

\* the keyword arguments of Input(...) for a GraphRequirement g; without a
\* GraphRequirement there is nothing to pass
FormatterInputOf(g) ==
    IF g = NoGraph
    THEN [text |-> Missing, subject_entity |-> Missing,
          object_entity |-> Missing, statement |-> Missing]
    ELSE [text |-> g.req_text, subject_entity |-> g.subject_entity,
          object_entity |-> g.object_entity, statement |-> g.statement]

\* the requirements of an Extractor output, none when reqs is null or the
\* output is not there
RequirementsIn(extracted) ==
    IF extracted.t = "ExtractedRequirements" /\ extracted.f.reqs.t = "list"
    THEN extracted.f.reqs.l
    ELSE <<>>

\* ----------------------------------------------------------------- actions
Init ==
    /\ refs = <<>>
    /\ graph = NoGraph
    /\ last = Returned("import", <<>>, None)
    /\ pipeline = NoRecord

\* Source(...), BaseRequirement(...): the dataclass constructors
NewSource ==
    /\ \E a \in SourceArgs : last' = Source(a)
    /\ UNCHANGED <<refs, graph, pipeline>>

NewBaseRequirement ==
    /\ \E a \in BaseRequirementArgs : last' = BaseRequirement(a)
    /\ UNCHANGED <<refs, graph, pipeline>>

\* Applicability(...), Statement(...), Query(...) of entities.py
NewApplicability ==
    /\ \E a \in ApplicabilityArgs : last' = Applicability(a)
    /\ UNCHANGED <<refs, graph, pipeline>>

NewStatement ==
    /\ \E a \in StatementArgs : last' = Statement(a)
    /\ UNCHANGED <<refs, graph, pipeline>>

NewQuery ==
    /\ \E a \in QueryArgs : last' = Query(a)
    /\ UNCHANGED <<refs, graph, pipeline>>

\* Applicability(...), Statement(...) of query_structurator.py
NewQueryApplicability ==
    /\ \E a \in ApplicabilityArgs : last' = QueryApplicability(a)
    /\ UNCHANGED <<refs, graph, pipeline>>

NewQueryStatement ==
    /\ \E a \in StatementArgs : last' = QueryStatement(a)
    /\ UNCHANGED <<refs, graph, pipeline>>

NewPartiallySpecifiedRequirement ==
    /\ \E a \in PartiallySpecifiedRequirementArgs : last' = PartiallySpecifiedRequirement(a)
    /\ UNCHANGED <<refs, graph, pipeline>>

NewExtractedRequirements ==
    /\ \E a \in ExtractedRequirementsArgs : last' = ExtractedRequirements(a)
    /\ UNCHANGED <<refs, graph, pipeline>>

\* ExternalReference(document=..., domain=...): a new object on the heap
NewExternalReference ==
    /\ Len(refs) < MaxRefs
    /\ \E a \in ExternalReferenceArgs :
        IF ExternalReferenceOk(a)
        THEN /\ refs' = Append(refs, ExternalReferenceInit(a))
             /\ last' = Returned("ExternalReference", a, Ref("ExternalReference", Len(refs) + 1))
        ELSE /\ refs' = refs
             /\ last' = Raised("ExternalReference", a, "ValidationError")
    /\ UNCHANGED <<graph, pipeline>>

\* StructuredRequirement(...): validation only
NewStructuredRequirement ==
    /\ \E a \in StructuredRequirementArgs : last' = StructuredRequirement(a)
    /\ UNCHANGED <<refs, graph, pipeline>>

\* g = GraphRequirement(...): validation, then model_post_init
NewGraphRequirement ==
    /\ \E a \in GraphRequirementArgs :
        IF GraphRequirementOk(a)
        THEN /\ graph' = GraphRequirementInit(a)
             /\ refs' = model_post_init(refs, a.external_refs.l)
             /\ last' = ReturnedOver("GraphRequirement", a, None, refs)
        ELSE /\ UNCHANGED <<refs, graph>>
             /\ last' = Raised("GraphRequirement", a, "ValidationError")
    /\ UNCHANGED pipeline

\* g.external_refs.append(ref): a list method, nothing is validated
AppendExternalRef ==
    /\ graph # NoGraph
    /\ \E r \in DOMAIN refs :
        /\ r \notin Range(graph.external_refs)
        /\ graph' = [graph EXCEPT !.external_refs = Append(@, r)]
        /\ last' = Returned("external_refs.append", r, None)
    /\ UNCHANGED <<refs, pipeline>>

\* ref.domain = x: BaseModel.__setattr__ without validate_assignment stores x
SetDomain ==
    /\ \E r \in DOMAIN refs, x \in {None, Str("")} :
        /\ refs' = [refs EXCEPT ![r].domain = x]
        /\ last' = Returned("ExternalReference.domain=", [ref |-> r, domain |-> x], None)
    /\ UNCHANGED <<graph, pipeline>>

\* g.relation = x: GraphRequirement has no frozen or validate_assignment
\* configuration, the attribute is stored
SetRelation ==
    /\ graph # NoGraph
    /\ \E x \in {Str("is"), Str("contains")} :
        /\ graph' = [graph EXCEPT !.relation = x]
        /\ last' = Returned("GraphRequirement.relation=", x, None)
    /\ UNCHANGED <<refs, pipeline>>

\* FORMATTED_REQ_SYS_PROMPT is built: the Input and output of Task Example i
FormatterExample ==
    /\ \E i \in DOMAIN FormatterExamples :
        LET e == FormatterExamples[i]
            input == FormatterInput([text |-> Str(e.text),
                                     subject_entity |-> e.subject_entity,
                                     object_entity |-> e.object_entity,
                                     statement |-> Statement(e.statement).value])
            output == FormattedRequirement([formatted_text |-> Str(e.formatted_text)])
        IN  last' = Returned("FORMATTED_REQ_SYS_PROMPT", input.value, output.value)
    /\ UNCHANGED <<refs, graph, pipeline>>

\* the Formatter's answer to an Input is parsed into FormattedRequirement: the
\* marked text of the Task Example, the unmarked text, or no text at all
Format ==
    /\ \E i \in DOMAIN FormatterExamples :
        LET e == FormatterExamples[i]
            input == FormatterInput([text |-> Str(e.text),
                                     subject_entity |-> e.subject_entity,
                                     object_entity |-> e.object_entity,
                                     statement |-> Statement(e.statement).value])
        IN  \E x \in {Str(e.formatted_text), Str(e.text), None} :
                LET output == FormattedRequirement([formatted_text |-> x])
                IN  last' = Call("Formatter", [input |-> input.value, formatted_text |-> x],
                                 output.raised, output.value)
    /\ UNCHANGED <<refs, graph, pipeline>>

\* the Structurer's answer is validated against Result: null, or a JSON object
\* validated against StructuredRequirement
StructurerResult ==
    /\ \E x \in {None} \cup {Dict(d) : d \in StructurerPayloads} :
        LET inner == IF IsNone(x) THEN Returned("null", x, None)
                     ELSE StructuredRequirementFrom(x.d)
            result == IF inner.raised # "" THEN inner
                      ELSE Result([structured_requirement |-> inner.value])
        IN  last' = Call("Result.model_validate", [structured_requirement |-> x],
                         result.raised, result.value)
    /\ UNCHANGED <<refs, graph, pipeline>>

\* STRUCTURED_REQ_SYS_PROMPT is built: the Input and the Result of Task Example i
StructurerExample ==
    /\ \E i \in DOMAIN StructurerExamples :
        LET e == StructurerExamples[i]
            x == e.structured_requirement
            inner == IF IsNone(x) THEN Returned("null", x, None)
                     ELSE StructuredRequirementFrom(x.d)
            result == IF inner.raised # "" THEN inner
                      ELSE Result([structured_requirement |-> inner.value])
        IN  last' = Call("STRUCTURED_REQ_SYS_PROMPT", Str(e.input), result.raised, result.value)
    /\ UNCHANGED <<refs, graph, pipeline>>

\* GraphRequirement(req_text=..., source=..., **fields of a StructuredRequirement):
\* validation, then model_post_init on the references of the StructuredRequirement
HandOff ==
    /\ \E d \in HandOffInputs, paragraph \in {Str("6.6.2"), None} :
        LET sr == StructuredRequirementFrom(d).value
            source == Source([SourceBase EXCEPT !.paragraph = paragraph]).value
            heap == ReferencesOf(sr)
            at == [i \in DOMAIN heap |-> i]
            a == FieldForField(sr, Str(ExampleReqText), source, at)
            after == model_post_init(heap, at)
        IN  last' =
              IF GraphRequirementOk(a)
              THEN ReturnedOver("GraphRequirement(**structured_requirement)",
                                [structured_requirement |-> sr, source |-> source],
                                Obj("GraphRequirement",
                                    [GraphRequirementInit(a) EXCEPT
                                        !.external_refs = [i \in DOMAIN at |-> after[at[i]]]]),
                                heap)
              ELSE Raised("GraphRequirement(**structured_requirement)",
                          [structured_requirement |-> sr, source |-> source],
                          "ValidationError")
    /\ UNCHANGED <<refs, graph, pipeline>>

\* the Query Structurer's answer is validated against PartiallySpecifiedRequirement
QueryStructurerResult ==
    /\ \E d \in QueryStructurerPayloads :
        LET result == PartiallySpecifiedRequirementFrom(d)
        IN  last' = Call("PartiallySpecifiedRequirement.model_validate", Dict(d),
                         result.raised, result.value)
    /\ UNCHANGED <<refs, graph, pipeline>>

\* QUERY_SYS_PROMPT is built: the Input line and the Query of Task Example i
QueryExample ==
    /\ \E i \in DOMAIN QueryExamples :
        LET e == QueryExamples[i]
        IN  last' = Returned("QUERY_SYS_PROMPT", Str(e.input),
                             Query([type |-> e.type, mean |-> Str(e.mean)]).value)
    /\ UNCHANGED <<refs, graph, pipeline>>

\* REQ_SYS_PROMPT is built: the ExtractedRequirements of Task Example i
ExtractorExample ==
    /\ \E i \in DOMAIN ExtractorExamples :
        LET e == ExtractorExamples[i]
            reqs == IF e.null THEN None ELSE List(RequirementsOf(e.literals))
        IN  last' = Returned("REQ_SYS_PROMPT", e,
                             ExtractedRequirements([reqs |-> reqs,
                                                    paragraph |-> e.paragraph]).value)
    /\ UNCHANGED <<refs, graph, pipeline>>

\* the Serializer stage under IDS_SYS_PROMPT: one GraphRequirement, one IdsXml
Serialize ==
    /\ \E g \in SerializerInputs, ifc \in IfcLookups :
        last' = Returned("IDS_SYS_PROMPT", [requirement |-> g, ifc |-> ifc],
                         IdsXml([xml |-> Str(IdsDocument(g, ifc))]).value)
    /\ UNCHANGED <<refs, graph, pipeline>>

\* IDS_SYS_PROMPT is built: the Input and the IdsXml of Task Example i
SerializerExample ==
    /\ \E i \in DOMAIN SerializerExamples :
        LET e == SerializerExamples[i]
        IN  last' = Returned("IDS_SYS_PROMPT.Example",
                             [requirement |-> [statement |-> Statement(e.statement).value]],
                             IdsXml([xml |-> Str(e.xml)]).value)
    /\ UNCHANGED <<refs, graph, pipeline>>

\* a paragraph of the document is submitted as a record
Submit ==
    /\ pipeline.pc = "none"
    /\ \E paragraph \in {1, 2, 3} : pipeline' = NewRecord(paragraph)
    /\ UNCHANGED <<refs, graph, last>>

\* the Extractor is called with the paragraph
StartExtractor ==
    /\ MayStart(pipeline, "Extractor")
    /\ pipeline' = [pipeline EXCEPT !.state["Extractor"] = "running"]
    /\ UNCHANGED <<refs, graph, last>>

\* its answer is validated against ExtractedRequirements; reqs = null ends the record
ExtractorReturns ==
    /\ pipeline.pc = "record"
    /\ pipeline.state["Extractor"] = "running"
    /\ \E a \in ExtractorAnswers(pipeline.paragraph) :
        LET call == ExtractedRequirements(a)
        IN  pipeline' = Ended(pipeline, "Extractor", a, call, "extracted",
                              IF call.raised = "" /\ IsNone(call.value.f.reqs)
                              THEN "NoRequirementFound" ELSE "")
    /\ UNCHANGED <<refs, graph, last>>

\* the Structurer is called with a BaseRequirement: one extracted requirement
\* and the Source of its paragraph
StartStructurer ==
    /\ MayStart(pipeline, "Structurer")
    /\ \E k \in DOMAIN RequirementsIn(pipeline.extracted) :
        LET source == Source([paragraph |-> pipeline.extracted.f.paragraph,
                              document |-> RecordDocument.document,
                              chapter |-> RecordDocument.chapter])
            base == BaseRequirement([req_text |-> RequirementsIn(pipeline.extracted)[k].f.text,
                                     source |-> source.value])
        IN  pipeline' = [pipeline EXCEPT !.state["Structurer"] = "running",
                                         !.source = source.value,
                                         !.base = base.value]
    /\ UNCHANGED <<refs, graph, last>>

\* its answer is validated against Result; null ends the record, a
\* StructuredRequirement becomes the GraphRequirement of the BaseRequirement
StructurerReturns ==
    /\ pipeline.pc = "record"
    /\ pipeline.state["Structurer"] = "running"
    /\ \E x \in StructurerAnswers :
        LET inner == IF IsNone(x) THEN Returned("null", x, None)
                     ELSE StructuredRequirementFrom(x.d)
            result == IF inner.raised # "" THEN inner
                      ELSE Result([structured_requirement |-> inner.value])
        IN  IF result.raised # "" \/ IsNone(x)
            THEN /\ pipeline' = Ended(pipeline, "Structurer", x, result, "result",
                                      "NoConstraintFormalizable")
                 /\ UNCHANGED <<refs, graph>>
            ELSE LET sr == result.value.f.structured_requirement
                     new == ReferencesOf(sr)
                     at == [i \in DOMAIN new |-> Len(refs) + i]
                     a == GraphRequirementOf(sr, pipeline.base, at)
                 IN  IF GraphRequirementOk(a)
                     THEN /\ graph' = GraphRequirementInit(a)
                          /\ refs' = model_post_init(refs \o new, at)
                          /\ pipeline' = Ended(pipeline, "Structurer", x, result, "result", "")
                     ELSE /\ pipeline' = Ended(pipeline, "Structurer", x,
                                               Raised("GraphRequirement", a, "ValidationError"),
                                               "result", "")
                          /\ UNCHANGED <<refs, graph>>
    /\ UNCHANGED last

\* the Formatter is called with the Input made of the GraphRequirement
StartFormatter ==
    /\ MayStart(pipeline, "Formatter")
    /\ LET call == FormatterInput(FormatterInputOf(graph))
       IN  pipeline' = IF call.raised # ""
                       THEN Ended(pipeline, "Formatter", NoValue, call, "input", "")
                       ELSE [pipeline EXCEPT !.state["Formatter"] = "running",
                                             !.input = call.value]
    /\ UNCHANGED <<refs, graph, last>>

\* its answer is validated against FormattedRequirement
FormatterReturns ==
    /\ pipeline.pc = "record"
    /\ pipeline.state["Formatter"] = "running"
    /\ \E x \in FormatterAnswers(pipeline.input.f.text.v) :
        pipeline' = Ended(pipeline, "Formatter", x,
                          FormattedRequirement([formatted_text |-> x]), "formatted", "")
    /\ UNCHANGED <<refs, graph, last>>

\* the Serializer is called with the GraphRequirement
StartSerializer ==
    /\ MayStart(pipeline, "Serializer")
    /\ pipeline' = [pipeline EXCEPT !.state["Serializer"] = "running", !.given = graph]
    /\ UNCHANGED <<refs, graph, last>>

\* its answer is validated against IdsXml
SerializerReturns ==
    /\ pipeline.pc = "record"
    /\ pipeline.state["Serializer"] = "running"
    /\ \E ifc \in IfcLookups :
        LET xml == IF pipeline.given = NoGraph THEN Str("")
                   ELSE Str(IdsDocument(pipeline.given, ifc))
        IN  pipeline' = Ended(pipeline, "Serializer", xml, IdsXml([xml |-> xml]), "ids", "")
    /\ UNCHANGED <<refs, graph, last>>

Next ==
    \/ NewExternalReference
    \/ NewStructuredRequirement
    \/ NewGraphRequirement
    \/ AppendExternalRef
    \/ SetDomain
    \/ SetRelation

Spec == Init /\ [][Next]_vars

\* the stateless constructors of the payload schemas and the prompts built at import
StageNext ==
    \/ NewSource
    \/ NewBaseRequirement
    \/ NewApplicability
    \/ NewStatement
    \/ NewQuery
    \/ NewQueryApplicability
    \/ NewQueryStatement
    \/ NewPartiallySpecifiedRequirement
    \/ NewExtractedRequirements
    \/ FormatterExample
    \/ Format
    \/ StructurerResult
    \/ StructurerExample
    \/ QueryStructurerResult
    \/ HandOff
    \/ QueryExample
    \/ ExtractorExample
    \/ Serialize
    \/ SerializerExample

StageSpec == Init /\ [][StageNext]_vars

\* one record taken through Extractor, Structurer, Formatter and Serializer
PipelineNext ==
    \/ Submit
    \/ StartExtractor
    \/ ExtractorReturns
    \/ StartStructurer
    \/ StructurerReturns
    \/ StartFormatter
    \/ FormatterReturns
    \/ StartSerializer
    \/ SerializerReturns

PipelineSpec == Init /\ [][PipelineNext]_vars

\* the texts and their markings: a formatted_text as the sequence of its
\* tokens, the characters of the text and the "$$" and "&&" added between them
MaxText == 3

MaxMarkers == 3

Markers == {"$$", "&&"}

RECURSIVE Flat(_)
Flat(tokens) == IF tokens = <<>> THEN "" ELSE Head(tokens) \o Flat(Tail(tokens))

\* the text a sequence of tokens marks, and the markers in it
TextOf(tokens) == Flat(SelectSeq(tokens, LAMBDA t : t \notin Markers))

MarkersOf(tokens) == SelectSeq(tokens, LAMBDA t : t \in Markers)

\* the texts of up to MaxText characters, a letter and the two marker characters
Texts == UNION {[1..n -> {"a", "$", "&"}] : n \in 0..MaxText}

\* the record of a formatted_text: the text, the tokens, and what the ASSERT
\* of FormattedRequirement computes from it
Marked(tokens) ==
    Returned("formatted_text", [text |-> Str(TextOf(tokens)), tokens |-> tokens],
             [formatted_text |-> Str(Flat(tokens)),
              stripped |-> Str(StripMarkers(Flat(tokens)))])

\* a text, not yet marked
MarkerInit ==
    /\ refs = <<>>
    /\ graph = NoGraph
    /\ pipeline = NoRecord
    /\ \E text \in Texts : last = Marked(text)

\* one more "$$" or "&&" is added before, between or after the characters
Mark ==
    /\ last.op = "formatted_text"
    /\ Len(MarkersOf(last.args.tokens)) < MaxMarkers
    /\ \E k \in 0..Len(last.args.tokens), m \in Markers :
        last' = Marked(SubSeq(last.args.tokens, 1, k) \o <<m>>
                        \o SubSeq(last.args.tokens, k + 1, Len(last.args.tokens)))
    /\ UNCHANGED <<refs, graph, pipeline>>

MarkerSpec == MarkerInit /\ [][Mark]_vars

\* ================================================================== claims
ReturnedBy(op) == last.op = op /\ last.raised = ""

\* C2 (as claimed): every GraphRequirement and every StructuredRequirement that
\* was constructed with subject_entity == object_entity has relation == "is".
IdentityRelation ==
    /\ graph # NoGraph =>
        (graph.subject_entity = graph.object_entity => graph.relation = Str("is"))
    /\ ReturnedBy("StructuredRequirement") =>
        (last.value.f.subject_entity = last.value.f.object_entity
            => last.value.f.relation = Str("is"))

\* C3 (as claimed): an ExternalReference constructed on its own with domain
\* omitted has domain == "" right after its construction.
ReferenceNormalizedOnItsOwn ==
    ReturnedBy("ExternalReference") /\ IsMissing(last.args.domain)
        => refs[last.value.ref].domain = Str("")

\* C3 (amended): an ExternalReference constructed on its own with domain omitted
\* has a null domain; constructing a GraphRequirement turns the null domain of
\* every reference of its external_refs into "", so that when the constructor
\* returns no reference of the new GraphRequirement has a null domain.
ReferenceNormalizedByGraphRequirement ==
    /\ (ReturnedBy("ExternalReference") /\ IsMissing(last.args.domain))
            => IsNone(refs[last.value.ref].domain)
    /\ ReturnedBy("GraphRequirement")
            => \A i \in Range(graph.external_refs) :
                  /\ IsNone(last.before[i].domain) => refs[i].domain = Str("")
                  /\ ~IsNone(refs[i].domain)

\* C3 witness: a GraphRequirement just constructed over two references, the
\* second of which had a null domain when it was passed.
ReferenceNormalizedWitness ==
    /\ ReturnedBy("GraphRequirement")
    /\ Len(graph.external_refs) = 2
    /\ IsNone(last.before[graph.external_refs[2]].domain)
    /\ refs[graph.external_refs[2]].domain = Str("")

\* C4 (as claimed): in every state after a GraphRequirement was constructed,
\* also after an append to external_refs or an assignment to a domain, no
\* reference of external_refs has a null domain.
NoNullDomainInGraph ==
    graph # NoGraph => \A i \in Range(graph.external_refs) : ~IsNone(refs[i].domain)

\* C5: a constructor given an Entity, Operator, StatementType or QueryType value
\* outside the enumeration raises ValidationError and returns no object; what it
\* accepts it stores as given, a member's value.
NotMember(x, members) == ~(IsStr(x) /\ x.v \in members)

EnumFields(op) ==
    CASE op \in {"Applicability", "QueryApplicability"} ->
            {<<"entity", Entity>>, <<"operator", Operator>>}
      [] op \in {"Statement", "QueryStatement"} ->
            {<<"operator", Operator>>, <<"type", StatementType>>}
      [] op = "Query" -> {<<"type", QueryType>>}
      [] OTHER -> {}

\* the query-side fields that are Optional: null there is the absent value
NullAllowed(op, f) ==
    \/ op = "QueryStatement" /\ f \in {"operator", "type"}
    \/ op = "QueryApplicability" /\ f = "operator"

ClosedEnumerations ==
    \A fm \in EnumFields(last.op) :
        LET x == last.args[fm[1]] IN
        /\ (NotMember(x, fm[2]) /\ ~(NullAllowed(last.op, fm[1]) /\ IsNone(x)))
              => last.raised = "ValidationError" /\ last.value = NoValue
        /\ last.raised = "" => last.value.f[fm[1]] = x

\* C5 witness: Statement(...) with the operator "=>" was rejected.
ClosedEnumerationsWitness ==
    /\ last.op = "Statement"
    /\ last.args.operator = Str("=>")
    /\ last.raised = "ValidationError"

\* C10 (as claimed): constructing a record with a required field missing or of
\* another type than the declared one raises an error; no record is created
\* with the bad value in place.  Checked on the fields declared str of the
\* dataclasses and of the pydantic payloads (Source.paragraph, which may be
\* absent, left aside) and on BaseRequirement.source.
DeclaredStr(op) ==
    CASE op = "Source" -> {"document", "chapter"}
      [] op = "BaseRequirement" -> {"req_text"}
      [] op \in {"Applicability", "Statement"} -> {"property", "value"}
      [] op = "Query" -> {"mean"}
      [] OTHER -> {}

SchemaValidationFailsFast ==
    (\/ \E f \in DeclaredStr(last.op) : ~IsStr(last.args[f])
     \/ last.op = "BaseRequirement" /\ last.args.source.t # "Source")
        => last.raised # "" /\ last.value = NoValue

\* C1 (as claimed): removing every "$$" and "&&" from a formatted_text yields
\* the original text; so also for the Input/output pairs of the Task Examples
\* of FORMATTED_REQ_SYS_PROMPT.
RoundTrip ==
    ReturnedBy("FORMATTED_REQ_SYS_PROMPT")
        => StripMarkers(last.value.f.formatted_text.v) = last.args.f.text.v

\* C6 (as claimed): a query gets its type by the first match of Question (a
\* question mark), Contradiction, Duplicate, Other; the Task Examples of
\* QUERY_SYS_PROMPT obey that order.
ClassificationPrecedence ==
    ReturnedBy("QUERY_SYS_PROMPT") => last.value.f.type.v = QueryTypeRule(last.args.v)

\* C8 (as claimed): every list item is its own element of reqs; each
\* ExtractedRequirements of the Task Examples of REQ_SYS_PROMPT has as many
\* elements as requirement sentences are written for it, each one sentence.
OneElementPerSentence ==
    (ReturnedBy("REQ_SYS_PROMPT") /\ ~last.args.null)
        => LET reqs == last.value.f.reqs.l
               written == last.args.literals
           IN  /\ Len(reqs) = Len(written)
               /\ \A i \in DOMAIN reqs : reqs[i].f.text.v = written[i].text

\* C9 (as claimed): mean is the query without its leading boilerplate: what
\* follows is kept verbatim to the end of the query, the closing punctuation
\* and quote apart.
Closing == {".", "?", "'", " "}

VerbatimRemainder(mean, query) ==
    \E i \in 1..(Len(query) + 1), j \in 0..Len(query) :
        /\ SubSeq(query, i, j) = mean
        /\ \A k \in (j + 1)..Len(query) : SubSeq(query, k, k) \in Closing

MeanIsVerbatimRemainder ==
    ReturnedBy("QUERY_SYS_PROMPT") => VerbatimRemainder(last.value.f.mean.v, last.args.v)

RoundTripViolationRejected ==
    (/\ last.op = "Formatter"
     /\ IsStr(last.args.formatted_text)
     /\ StripMarkers(last.args.formatted_text.v) # last.args.input.f.text.v)
        => last.raised # "" /\ last.value = NoValue

\* a Serializer output: of the stage, or of a Task Example of IDS_SYS_PROMPT
SerializerReturned == last.op \in {"IDS_SYS_PROMPT", "IDS_SYS_PROMPT.Example"} /\ last.raised = ""

RequirementsBlock(xml) ==
    SubSeq(xml, Find(xml, "<ids:requirements>", 1), Find(xml, "</ids:requirements>", 1))

ValueNode(block) == SubSeq(block, Find(block, "<ids:value>", 1), Find(block, "</ids:value>", 1))

\* the bound an operator states
BoundOf(operator) ==
    CASE operator = ">" -> "minExclusive"
      [] operator = ">=" -> "minInclusive"
      [] operator = "<" -> "maxExclusive"
      [] operator = "<=" -> "maxInclusive"
      [] OTHER -> "none"

HasNullValue(d) ==
    \/ IsNone(d.statement.value)
    \/ /\ d.applicability.t = "list"
       /\ \E i \in DOMAIN d.applicability.l : IsNone(d.applicability.l[i].value)

\* C15 (as claimed): a Structurer output with null for a vague statement.value
\* or applicability value is a valid StructuredRequirement; validation accepts it.
NullValueAccepted ==
    (/\ last.op = "Result.model_validate"
     /\ last.args.structured_requirement.t = "dict"
     /\ HasNullValue(last.args.structured_requirement.d))
        => /\ last.raised = ""
           /\ last.value.f.structured_requirement.t = "StructuredRequirement"

\* C15 (amended): null for a vague value is accepted on the query side, where
\* PartiallySpecifiedRequirement keeps it as null; a StructuredRequirement,
\* whose Statement and Applicability declare value: str, rejects it with a
\* ValidationError.
NullValueAcceptedOnQuerySide ==
    /\ (/\ last.op = "PartiallySpecifiedRequirement.model_validate"
        /\ ~(last.args.d.statement.value.t = "int"))
          => /\ last.raised = ""
             /\ last.value.f.statement.f.value = last.args.d.statement.value
             /\ last.value.f.applicability.l[1].f.value = last.args.d.applicability.l[1].value
    /\ (/\ last.op = "Result.model_validate"
        /\ last.args.structured_requirement.t = "dict"
        /\ HasNullValue(last.args.structured_requirement.d))
          => last.raised = "ValidationError" /\ last.value = NoValue

\* C15 witness: a query answer with a null statement.value was validated and
\* holds the null.
NullValueAcceptedWitness ==
    /\ last.op = "PartiallySpecifiedRequirement.model_validate"
    /\ IsNone(last.args.d.statement.value)
    /\ last.raised = ""
    /\ IsNone(last.value.f.statement.f.value)

\* C16 (as claimed): statement.type is requirement exactly when the clause has
\* no softening modal ("may", "should", "recommended", "allowed") and
\* assumption otherwise; so also in the Task Examples of
\* STRUCTURED_REQ_SYS_PROMPT, whose clauses are all affirmative.
StatementStrength ==
    (/\ ReturnedBy("STRUCTURED_REQ_SYS_PROMPT")
     /\ ~IsNone(last.value.f.structured_requirement))
        => last.value.f.structured_requirement.f.statement.f.type.v
              = StatementTypeRule(last.args.v)

\* C17 (as claimed): once a GraphRequirement is constructed, no later operation
\* changes a field of it or of an ExternalReference it holds: an assignment or
\* an append is rejected and leaves the object as it was.
GraphRequirementImmutable ==
    [][(graph # NoGraph /\ last'.op # "GraphRequirement")
          => /\ graph' = graph
             /\ \A i \in Range(graph.external_refs) : refs'[i] = refs[i]]_vars

\* C18: the GraphRequirement produced from a BaseRequirement holds the Source
\* of that BaseRequirement, one Source with the same paragraph, document and
\* chapter, and no step of a later stage changes the Source of either.
Provenance ==
    [][/\ (pipeline'.pc = "record" /\ graph' # NoGraph)
            => /\ graph'.source.t = "Source"
               /\ graph'.source = pipeline'.base.f.source
               /\ graph'.source = pipeline'.source
       /\ (pipeline.pc = "record" /\ pipeline.base.t # "NoValue")
            => pipeline'.base.f.source = pipeline.base.f.source
       /\ graph # NoGraph => graph'.source = graph.source]_vars

\* C18 witness: Formatter and Serializer have both returned and the
\* GraphRequirement still holds the Source of its BaseRequirement, the clause
\* number the Extractor gave included.
ProvenanceWitness ==
    /\ pipeline.pc = "record"
    /\ pipeline.state["Formatter"] = "returned"
    /\ pipeline.state["Serializer"] = "returned"
    /\ graph.source = pipeline.base.f.source
    /\ IsStr(graph.source.f.paragraph)
    /\ graph.source.f.paragraph = pipeline.extracted.f.paragraph

\* the stages after a stage
Downstream(stage) == {st \in Stages : stage \in Upstream(st)}
                        \cup (IF stage = "Extractor" THEN {"Formatter", "Serializer"} ELSE {})

\* C19: when the Extractor answers reqs = null or the Structurer answers
\* structured_requirement = null, the answer is returned as a value, not
\* raised as an error, and no downstream stage of the record is ever started.
TerminalOutcomeStops ==
    pipeline.pc = "record" =>
        /\ (pipeline.state["Extractor"] \in {"returned", "raised"}
                /\ IsNone(pipeline.answer["Extractor"].reqs))
              => /\ pipeline.state["Extractor"] = "returned"
                 /\ IsNone(pipeline.extracted.f.reqs)
                 /\ pipeline.outcome = "NoRequirementFound"
                 /\ \A st \in Downstream("Extractor") : pipeline.state[st] = "idle"
        /\ (pipeline.state["Structurer"] \in {"returned", "raised"}
                /\ IsNone(pipeline.answer["Structurer"]))
              => /\ pipeline.state["Structurer"] = "returned"
                 /\ IsNone(pipeline.result.f.structured_requirement)
                 /\ pipeline.outcome = "NoConstraintFormalizable"
                 /\ \A st \in Downstream("Structurer") : pipeline.state[st] = "idle"

\* C19 witness: the Structurer answered null; the record has ended there, no
\* error was raised, Formatter and Serializer were not called.
TerminalOutcomeStopsWitness ==
    /\ pipeline.pc = "record"
    /\ pipeline.state["Structurer"] = "returned"
    /\ IsNone(pipeline.answer["Structurer"])
    /\ pipeline.outcome = "NoConstraintFormalizable"
    /\ pipeline.state["Formatter"] = "idle" /\ pipeline.state["Serializer"] = "idle"
    /\ ~ENABLED PipelineNext

\* a stage that was started: it is running or has ended
Started(stage) == pipeline.state[stage] # "idle"

\* C20: within one record the Structurer starts only after the Extractor has
\* returned, the Formatter and the Serializer only after the Structurer has
\* returned; each is given the whole output of the stage before it; and when
\* the GraphRequirement is there, the Formatter and the Serializer may each
\* start whether or not the other has.
StageOrdering ==
    pipeline.pc = "record" =>
        /\ \A st \in Stages : \A up \in Upstream(st) :
              Started(st) => pipeline.state[up] = "returned"
        /\ Started("Structurer")
              => /\ pipeline.extracted.t = "ExtractedRequirements"
                 /\ \E k \in DOMAIN pipeline.extracted.f.reqs.l :
                       pipeline.base.f.req_text = pipeline.extracted.f.reqs.l[k].f.text
        /\ pipeline.state["Formatter"] \in {"running", "returned"}
              => /\ pipeline.result.t = "Result"
                 /\ pipeline.input = Obj("Input", FormatterInputOf(graph))
                 /\ \A f \in DOMAIN pipeline.input.f : ~IsMissing(pipeline.input.f[f])
        /\ Started("Serializer")
              => pipeline.result.t = "Result" /\ pipeline.given = graph /\ graph # NoGraph
        /\ (pipeline.state["Structurer"] = "returned" /\ pipeline.outcome = "")
              => /\ ~Started("Formatter") => ENABLED StartFormatter
                 /\ ~Started("Serializer") => ENABLED StartSerializer

\* C20 witness: the Serializer has returned while the Formatter, started after
\* the Structurer returned, is still running.
StageOrderingWitness ==
    /\ pipeline.pc = "record"
    /\ pipeline.state["Extractor"] = "returned"
    /\ pipeline.state["Structurer"] = "returned"
    /\ pipeline.state["Formatter"] = "running"
    /\ pipeline.state["Serializer"] = "returned"
    /\ pipeline.input.f.text = graph.req_text

\* the payload a stage leaves in the record
Artifact(stage) ==
    CASE stage = "Extractor" -> pipeline.extracted
      [] stage = "Structurer" -> pipeline.result
      [] stage = "Formatter" -> pipeline.formatted
      [] stage = "Serializer" -> pipeline.ids

\* C21 (as claimed): a validation error or a round-trip violation in a stage
\* ends the record there: the offending answer is kept for the report, the
\* stage leaves no payload in the record, and no later stage is started.
ErrorIsolation ==
    pipeline.pc = "record" =>
        /\ \A st \in Stages :
              pipeline.state[st] = "raised"
                => /\ pipeline.outcome = "SchemaValidationError"
                   /\ Artifact(st) = NoValue
                   /\ \A d \in Downstream(st) : pipeline.state[d] = "idle"
        /\ (/\ pipeline.state["Formatter"] \in {"returned", "raised"}
            /\ IsStr(pipeline.answer["Formatter"])
            /\ StripMarkers(pipeline.answer["Formatter"].v) # pipeline.input.f.text.v)
              => /\ pipeline.state["Formatter"] = "raised"
                 /\ pipeline.formatted = NoValue

\* C22 (as claimed): constructing a GraphRequirement changes no object that
\* existed before the call; what another invocation holds, such as the
\* references of a StructuredRequirement, is afterwards as it was.
ConstructionLeavesOtherObjects ==
    ReturnedBy("GraphRequirement")
        => \A i \in DOMAIN last.before : refs[i] = last.before[i]

NullOrMissing(x) == IsNone(x) \/ IsMissing(x)

PartialRequirementNulls ==
    last.op = "PartiallySpecifiedRequirement" =>
        /\ (NullOrMissing(last.args.object_entity) \/ NullOrMissing(last.args.statement))
                => last.raised = "ValidationError" /\ last.value = NoValue
        /\ (/\ IsStr(last.args.object_entity)
            /\ last.args.statement.t = "QueryStatement"
            /\ ~IsMissing(last.args.subject_entity)
            /\ ~IsMissing(last.args.relation))
                => /\ last.raised = ""
                   /\ last.value.f.subject_entity = last.args.subject_entity
                   /\ last.value.f.relation = last.args.relation
                   /\ last.value.f.statement = last.args.statement
                   /\ NullOrMissing(last.args.applicability)
                          => IsNone(last.value.f.applicability)

\* C24 witness: a PartiallySpecifiedRequirement returned with null
\* subject_entity, relation and applicability and a statement whose operator,
\* value and type are null.
PartialRequirementNullsWitness ==
    /\ ReturnedBy("PartiallySpecifiedRequirement")
    /\ IsNone(last.value.f.subject_entity)
    /\ IsNone(last.value.f.relation)
    /\ IsNone(last.value.f.applicability)
    /\ IsNone(last.value.f.statement.f.operator)
    /\ IsNone(last.value.f.statement.f.value)
    /\ IsNone(last.value.f.statement.f.type)

\* C25 (as claimed): relation is null exactly when subject_entity is null, in
\* every PartiallySpecifiedRequirement the constructor returns (the one
\* structured requirement whose subject_entity and relation may be null).
RelationNullIffSubjectNull ==
    ReturnedBy("PartiallySpecifiedRequirement")
        => (IsNone(last.value.f.relation) <=> IsNone(last.value.f.subject_entity))

\* C26 (as claimed): every ExtractedRequirements the constructor returns has
\* either reqs = null and paragraph = null, or a reqs list with at least one
\* requirement.
ExtractorOutcomes ==
    ReturnedBy("ExtractedRequirements")
        => \/ IsNone(last.value.f.reqs) /\ IsNone(last.value.f.paragraph)
           \/ last.value.f.reqs.t = "list" /\ last.value.f.reqs.l # <<>>

\* C27 (as claimed): Applicability(...) of entities.py returns an object when
\* operator or value is null or not passed.
ApplicabilityOptional ==
    (/\ last.op = "Applicability"
     /\ NullOrMissing(last.args.operator) \/ NullOrMissing(last.args.value))
        => last.raised = ""

\* C27 (amended): Applicability(...) of entities.py raises ValidationError when
\* operator or value is null or not passed; the Applicability of
\* query_structurator.py returns an object holding the null when operator or
\* value is passed as null, and raises ValidationError when one is not passed.
ApplicabilityOptionalOnQuerySide ==
    /\ (/\ last.op = "Applicability"
        /\ NullOrMissing(last.args.operator) \/ NullOrMissing(last.args.value))
          => last.raised = "ValidationError" /\ last.value = NoValue
    /\ (/\ last.op = "QueryApplicability"
        /\ IsNone(last.args.operator) \/ IsNone(last.args.value))
          => last.raised = "" /\ last.value.f = last.args
    /\ (/\ last.op = "QueryApplicability"
        /\ IsMissing(last.args.operator) \/ IsMissing(last.args.value))
          => last.raised = "ValidationError" /\ last.value = NoValue

\* C27 witness: Applicability(...) of entities.py was called without operator
\* and raised.
ApplicabilityOptionalWitness ==
    /\ last.op = "Applicability"
    /\ IsMissing(last.args.operator)
    /\ last.raised = "ValidationError"

\* C28 (as claimed): a text with neither "$$" nor "&&" is what is left of any of
\* its markings when every "$$" and then every "&&" is removed; of a text that
\* contains "$$" or "&&", no marking and not the text itself is left as the text.
MarkerStripping ==
    last.op = "formatted_text" =>
        IF Contains(last.args.text.v, "$$") \/ Contains(last.args.text.v, "&&")
        THEN last.value.stripped # last.args.text
        ELSE last.value.stripped = last.args.text

\* C28 (amended): the first half as claimed; of a text that contains "&&" no
\* marking is left as the text, and a text that contains "$$" is not left of
\* itself unmarked.
MarkerStrippingOfMarkedText ==
    last.op = "formatted_text" =>
        /\ (~Contains(last.args.text.v, "$$") /\ ~Contains(last.args.text.v, "&&"))
              => last.value.stripped = last.args.text
        /\ Contains(last.args.text.v, "&&") => last.value.stripped # last.args.text
        /\ (Contains(last.args.text.v, "$$") /\ MarkersOf(last.args.tokens) = <<>>)
              => last.value.stripped # last.args.text

\* C28 witness: a text with a "$" and a "&" and no marker of its own, marked
\* with one marker of each kind, is what is left of its formatted_text.
MarkerStrippingWitness ==
    /\ last.op = "formatted_text"
    /\ last.args.text.v \in {"$&", "&$"}
    /\ Len(MarkersOf(last.args.tokens)) = 2
    /\ MarkersOf(last.args.tokens)[1] # MarkersOf(last.args.tokens)[2]
    /\ last.value.stripped = last.args.text

\* C29 (as claimed): every StructuredRequirement the schema accepts, also one
\* with applicability = null or external_refs = null and with a Source whose
\* paragraph is null, is accepted by GraphRequirement when passed field for
\* field with req_text and source.
HandOffAccepted ==
    last.op = "GraphRequirement(**structured_requirement)" => last.raised = ""

\* C29 (amended): GraphRequirement accepts the fields of a StructuredRequirement
\* exactly when its applicability and its external_refs are lists, whether the
\* paragraph of the Source is null or not; the GraphRequirement then holds the
\* fields and the Source as passed. With either list null it raises
\* ValidationError.
HandOffAcceptedWithLists ==
    last.op = "GraphRequirement(**structured_requirement)" =>
        LET sr == last.args.structured_requirement
        IN  IF sr.f.applicability.t = "list" /\ sr.f.external_refs.t = "list"
            THEN /\ last.raised = ""
                 /\ last.value.f.source = last.args.source
                 /\ last.value.f.applicability = sr.f.applicability
                 /\ last.value.f.statement = sr.f.statement
                 /\ last.value.f.object_entity = sr.f.object_entity
                 /\ last.value.f.subject_entity = sr.f.subject_entity
                 /\ last.value.f.relation = sr.f.relation
                 /\ Len(last.value.f.external_refs) = Len(sr.f.external_refs.l)
            ELSE last.raised = "ValidationError" /\ last.value = NoValue

\* C29 witness: a StructuredRequirement with a reference was handed over with a
\* Source whose paragraph is null, and the GraphRequirement holds that Source.
HandOffAcceptedWitness ==
    /\ ReturnedBy("GraphRequirement(**structured_requirement)")
    /\ IsNone(last.value.f.source.f.paragraph)
    /\ Len(last.value.f.external_refs) > 0

\* C30: when GraphRequirement(...) returns, the domain of a reference of
\* external_refs that was null is "", and nothing else differs from what was
\* passed: every document, every domain that was not null (also an empty one),
\* every object that is not in external_refs, the order and number of
\* external_refs and every other field; model_post_init run once more changes
\* nothing.
PostInitFrame ==
    ReturnedBy("GraphRequirement") =>
        /\ DOMAIN refs = DOMAIN last.before
        /\ \A i \in DOMAIN refs :
              /\ refs[i].document = last.before[i].document
              /\ ~IsNone(last.before[i].domain) => refs[i].domain = last.before[i].domain
              /\ i \notin Range(graph.external_refs) => refs[i] = last.before[i]
              /\ (i \in Range(graph.external_refs) /\ IsNone(last.before[i].domain))
                    => refs[i].domain = Str("")
        /\ graph.external_refs = last.args.external_refs.l
        /\ \A f \in DOMAIN graph \ {"external_refs"} : graph[f] = last.args[f]
        /\ model_post_init(refs, graph.external_refs) = refs

\* C30 witness: a GraphRequirement was constructed over one reference whose
\* domain was null, while another reference with a null domain is not in its
\* external_refs and still has it.
PostInitFrameWitness ==
    /\ ReturnedBy("GraphRequirement")
    /\ Len(graph.external_refs) = 1
    /\ IsNone(last.before[graph.external_refs[1]].domain)
    /\ \E j \in DOMAIN refs : j \notin Range(graph.external_refs) /\ IsNone(refs[j].domain)

====
